---- MODULE Spec2Model ----
(***************************************************************************)
(* Model of the agent orchestration loop of the chat server:               *)
(*   server/src/agent/agent.ts          Agent.processRequest and its loop  *)
(*   server/src/utils/stream-helper.ts  StreamHelper (the event sink)      *)
(*   server/src/tools/message-tools.ts  ToolExecutor                       *)
(*   server/src/widgets/*.ts            WidgetGenerator                    *)
(*   server/src/routes/chat.ts          the POST /chat route               *)
(*   server/src/providers/*.ts          the API-backed provider singletons *)
(* Texts are sequences of tokens; " " is the only whitespace token.        *)
(***************************************************************************)
EXTENDS Integers, Sequences, FiniteSets, TLC

VARIABLES
  streamHelper,   \* StreamHelper: [closed, res]; res is the express Response
  pc,             \* position of the request task
  config,         \* AgentConfig.maxToolIterations (0 = not set)
  request,        \* ChatRequest.messages
  conversation,   \* ConversationManager: entries of the request's conversation
  messages,       \* LLM message list of the current iteration
  iteration,      \* parameter `iteration` of processWithToolLoop
  fullResponse,   \* accumulated LLM output of the current iteration
  toolCalls,      \* parsed.toolCalls of the current iteration
  running,        \* positions of the batch whose handler has not settled
  results,        \* Map<string, ToolResult> of executeMany, in insertion order
  words,          \* words of streamText not yet sent
  responseText,   \* final response text of the turn
  llmWidgets,     \* parsed.widgets of the final iteration
  llmCalls,       \* history: number of streamChat invocations
  toolExecs,      \* history: number of handler invocations
  settled,        \* history: batch positions in completion order
  firstParse,     \* history: outcome of the first parse of the turn
  llmFailed,      \* history: an error chunk was consumed
  emitCalls,      \* history: [total, late] calls made on the StreamHelper directly
  probed,         \* history: outcome of llmProvider.isAvailable() ("none" before it)
  contextQuery,   \* history: outcome of the provider queries of buildContext
  mail,           \* titanMailProvider: [session, baseUrl, folders, foldersLoaded]
  calendar,       \* titanCalendarProvider: [session, baseUrl, calendarsCache]
  tasks,          \* concurrent processRequest calls: [pc, handle, calls, pending]
  apiLog,         \* downstream API requests sent, in order
  lastInstalled,  \* history: the session handle of the latest install
  titan,          \* the Titan calendar server: [calendarVersion], and history [listed]
  router,         \* PromptRouter calls: their inputs and what they returned
  registry,       \* ToolRegistry.tools
  regCall,        \* history: the register/unregister pair in progress
  exec,           \* ToolExecutor.executeSequential: [phase, calls, next, awaiting, running, started, results]
  llm             \* OllamaProvider.streamChat call: [phase, status, lines, read, timedOut]

vars == <<streamHelper, pc, config, request, conversation, messages, iteration,
          fullResponse, toolCalls, running, results, words, responseText,
          llmWidgets, llmCalls, toolExecs, settled, firstParse, llmFailed, emitCalls, probed,
          contextQuery,
          mail, calendar, tasks, apiLog, lastInstalled, titan,
          router, registry, regCall, exec, llm>>

----------------------------------------------------------------------------
(* Bounds and program constants *)

DEFAULT_MAX_TOOL_ITERATIONS == 5

ConfiguredIterations == 2

MaxSinkCalls == 4

HistoryWindow == 10

NoVal == "-"

WS == {" "}

EmptyText == << >>

Last(s) == s[Len(s)]

----------------------------------------------------------------------------
(* Stream events (types/protocol.ts StreamEvent), as written on the wire *)

NoWidget == [id |-> << >>, type |-> NoVal, src |-> NoVal]

TextDeltaEvent(content) ==
  [type |-> "text_delta", arg |-> NoVal, text |-> content, widget |-> NoWidget]

WidgetEvent(w) ==
  [type |-> "widget", arg |-> NoVal, text |-> EmptyText, widget |-> w]

StatusEvent(status) ==
  [type |-> "status", arg |-> status, text |-> EmptyText, widget |-> NoWidget]

DoneEvent ==
  [type |-> "done", arg |-> NoVal, text |-> EmptyText, widget |-> NoWidget]

ErrorEvent(code) ==
  [type |-> "error", arg |-> code, text |-> EmptyText, widget |-> NoWidget]

----------------------------------------------------------------------------
(* The express Response under the StreamHelper.  wire holds every frame     *)
(* handed to res.write; a write after the client has gone reaches nobody   *)
(* and is counted in deadWrites.  write and end never throw.               *)

NewResponse == [wire |-> << >>, ended |-> 0, alive |-> TRUE, deadWrites |-> 0]

ResWrite(res, event) ==
  [res EXCEPT !.wire = Append(@, event),
              !.deadWrites = IF res.alive THEN @ ELSE @ + 1]

ResEnd(res) == [res EXCEPT !.ended = @ + 1]

ResDrop(res) == [res EXCEPT !.alive = FALSE]

----------------------------------------------------------------------------
(* StreamHelper (utils/stream-helper.ts) *)

NewStreamHelper == [closed |-> FALSE, res |-> NewResponse]

sendEvent_unguarded(h, event) == [h EXCEPT !.res = ResWrite(h.res, event)]

sendEvent(h, event) ==
  IF h.closed THEN h ELSE [h EXCEPT !.res = ResWrite(h.res, event)]

close(h) ==
  IF ~h.closed THEN [closed |-> TRUE, res |-> ResEnd(h.res)] ELSE h

sendTextDelta(h, content) == sendEvent(h, TextDeltaEvent(content))

sendWidget(h, w) == sendEvent(h, WidgetEvent(w))

sendStatus(h, status) == sendEvent(h, StatusEvent(status))

sendDone(h) == close(sendEvent(h, DoneEvent))

sendError(h, code) == close(sendEvent(h, ErrorEvent(code)))

isClosed(h) == h.closed

RECURSIVE sendWidgets(_, _)
sendWidgets(h, ws) ==
  IF ws = << >> THEN h ELSE sendWidgets(sendWidget(h, ws[1]), Tail(ws))

----------------------------------------------------------------------------
(* Text helpers: String.prototype.trim and split(/(\s+)/) on token texts *)

RECURSIVE TrimLeft(_)
TrimLeft(t) == IF t # << >> /\ t[1] \in WS THEN TrimLeft(Tail(t)) ELSE t

RECURSIVE TrimRight(_)
TrimRight(t) ==
  IF t # << >> /\ t[Len(t)] \in WS THEN TrimRight(SubSeq(t, 1, Len(t) - 1)) ELSE t

Trim(t) == TrimRight(TrimLeft(t))

\* length of the longest prefix of t made of (non-)whitespace tokens
RECURSIVE RunLen(_, _)
RunLen(t, ws) ==
  IF t # << >> /\ ((t[1] \in WS) = ws) THEN 1 + RunLen(Tail(t), ws) ELSE 0

\* text.split(/\s+/) would give: the words without the runs between them
RECURSIVE SplitWords_noCapture(_)
SplitWords_noCapture(t) ==
  LET n == RunLen(t, FALSE)
      rest == SubSeq(t, n + 1, Len(t))
      m == RunLen(rest, TRUE)
  IN IF n = Len(t) THEN <<t>>
     ELSE <<SubSeq(t, 1, n)>>
          \o SplitWords_noCapture(SubSeq(rest, m + 1, Len(rest)))

\* text.split(/(\s+)/): words and the whitespace runs between them
RECURSIVE SplitWords(_)
SplitWords(t) ==
  LET n == RunLen(t, FALSE)
      rest == SubSeq(t, n + 1, Len(t))
      m == RunLen(rest, TRUE)
  IN IF n = Len(t) THEN <<t>>
     ELSE <<SubSeq(t, 1, n), SubSeq(rest, 1, m)>>
          \o SplitWords(SubSeq(rest, m + 1, Len(rest)))

----------------------------------------------------------------------------
(* Raw LLM output.  kind "json": the text holds one parseable JSON object; *)
(* "badjson": braces that JSON.parse rejects; "text": no braces at all.    *)
(* plain is the text around the braces; a field holds the JSON value of    *)
(* the same name.  tool_calls / toolCalls: shape "absent", "array" (calls  *)
(* holds the elements) or "string" (a non-empty string).                   *)

JsonToken == "{json}"

BadJsonToken == "{bad"

ResidueToken == "]}"

ApologyText ==
  <<"I apologize, but I encountered too many tool calls while processing your request. Please try rephrasing your question.">>

DefaultText == <<"I've processed your request.">>

Absent == [shape |-> "absent", calls |-> << >>]

CallArray(cs) == [shape |-> "array", calls |-> cs]

StringValue == [shape |-> "string", calls |-> << >>]

Truthy(v) == v.shape # "absent"

\* JS `.length > 0` of the value (a non-empty string has a positive length)
JsLength(v) ==
  CASE v.shape = "array" -> Len(v.calls)
    [] v.shape = "string" -> 1
    [] OTHER -> 0

\* a key an object does not have
NoKey == <<NoVal>>

\* `response` when it is a string (held in the field response of the raw)
NoObject == [present |-> FALSE, summary |-> NoKey, text |-> NoKey, message |-> NoKey]

\* `response` when it is a JSON object with some of the keys summary, text, message
ResponseObject(summary, text, message) ==
  [present |-> TRUE, summary |-> summary, text |-> text, message |-> message]

EmptyRaw ==
  [kind |-> "text", plain |-> EmptyText, tool_calls |-> Absent,
   toolCalls |-> Absent, response |-> EmptyText, responseObject |-> NoObject,
   widgets |-> << >>]

\* the raw string as a token text
WholeText(raw) ==
  CASE raw.kind = "text" -> raw.plain
    [] raw.kind = "json" -> raw.plain \o <<JsonToken>>
    [] OTHER -> raw.plain \o <<BadJsonToken>>

\* id of a call the LLM left without one: `tool-${Date.now()}-${random}`
MintId(i) == "tool-minted-" \o ToString(i)

NormalizeCalls(cs) ==
  [i \in 1..Len(cs) |->
     [id |-> IF cs[i].id = "" THEN MintId(i) ELSE cs[i].id,
      name |-> cs[i].name]]

\* Agent.parseResponse
parseResponse(raw) ==
  LET fallback == [toolCalls |-> Absent, response |-> Trim(WholeText(raw)),
                   responseObject |-> NoObject, widgets |-> << >>]
  IN IF raw.kind # "json" THEN fallback
     ELSE IF Truthy(raw.tool_calls) /\ ~Truthy(raw.toolCalls)
          THEN IF raw.tool_calls.shape = "array"
               THEN [toolCalls |-> CallArray(NormalizeCalls(raw.tool_calls.calls)),
                     response |-> raw.response,
                     responseObject |-> raw.responseObject, widgets |-> raw.widgets]
               ELSE fallback   \* .map is not a function: caught, plain text
          ELSE [toolCalls |-> raw.toolCalls, response |-> raw.response,
                responseObject |-> raw.responseObject, widgets |-> raw.widgets]

\* does the JSON object contain a nested object ({...} inside {...})
HasNestedObject(raw) ==
  \/ raw.responseObject.present
  \/ raw.widgets # << >>
  \/ raw.tool_calls.calls # << >>
  \/ raw.toolCalls.calls # << >>

\* Agent.extractPlainText: drop the braces regions (non-greedy), trim
extractPlainText(raw) ==
  LET residue == IF raw.kind = "json" /\ HasNestedObject(raw)
                 THEN <<ResidueToken>> ELSE << >>
      text == Trim(raw.plain \o residue)
  IN IF text = << >> THEN DefaultText ELSE text

HasToolCalls_present(parsed) == Truthy(parsed.toolCalls)

\* agent.ts:166 `parsed.toolCalls && parsed.toolCalls.length > 0`
HasToolCalls(parsed) == Truthy(parsed.toolCalls) /\ JsLength(parsed.toolCalls) > 0

\* agent.ts:195 `parsed.response || this.extractPlainText(fullResponse)`
\* (an object is truthy: see streamTextThrows)
ResponseTextOf(parsed, raw) ==
  IF parsed.response # << >> THEN parsed.response ELSE extractPlainText(raw)

\* agent.ts:198, 312: `text.split` when the response is an object, not a string
streamTextThrows(parsed) == parsed.responseObject.present

----------------------------------------------------------------------------
(* Tool registry and executor (tools/tool-registry.ts, ToolExecutor) *)

\* registered tool name -> what its handler can do when invoked
Registry ==
  [search_emails |-> {"widgets"},
   get_unread_emails |-> {"widgets"},
   get_email_details |-> {"fails"},
   custom_tool |-> {"throws"}]

RegistryGet(name) == name \in DOMAIN Registry

NoResult == [success |-> FALSE, data |-> NoVal, error |-> NoVal, widgets |-> << >>]

UnknownToolResult ==
  [success |-> FALSE, data |-> NoVal, error |-> "Unknown tool", widgets |-> << >>]

ThrownResult ==
  [success |-> FALSE, data |-> NoVal, error |-> "Tool execution failed",
   widgets |-> << >>]

\* createEmailWidget (email-tools.ts:92-110): the id is made from the email's id
createEmailWidget(emailId, src) ==
  [id |-> <<"email-widget", emailId>>, type |-> "email_preview", src |-> src]

\* the ToolResult a handler returns for one of its outcomes; a search that
\* succeeds finds the inbox's email "e1"
HandlerResult(name, outcome) ==
  IF outcome = "widgets"
  THEN [success |-> TRUE, data |-> "data", error |-> NoVal,
        widgets |-> <<createEmailWidget("e1", name)>>]
  ELSE [success |-> FALSE, data |-> NoVal, error |-> "Failed", widgets |-> << >>]

execute_bareFailure(call, outcome) ==
  IF ~RegistryGet(call.name)
  THEN [rejected |-> FALSE, result |-> UnknownToolResult]
  ELSE IF outcome = "throws"
       THEN [rejected |-> FALSE, result |-> NoResult]
       ELSE [rejected |-> FALSE, result |-> HandlerResult(call.name, outcome)]

\* ToolExecutor.execute: the settled promise of one call
execute(call, outcome) ==
  IF ~RegistryGet(call.name)
  THEN [rejected |-> FALSE, result |-> UnknownToolResult]
  ELSE IF outcome = "throws"
       THEN [rejected |-> FALSE, result |-> ThrownResult]
       ELSE [rejected |-> FALSE, result |-> HandlerResult(call.name, outcome)]

MapSet_clobber(m, id, result) == <<[id |-> id, result |-> result]>>

\* Map.prototype.set on an insertion-ordered map kept as <<[id, result]>>
MapSet(m, id, result) ==
  IF \E i \in 1..Len(m) : m[i].id = id
  THEN [i \in 1..Len(m) |-> IF m[i].id = id THEN [id |-> id, result |-> result]
                                             ELSE m[i]]
  ELSE Append(m, [id |-> id, result |-> result])

MapHas(m, id) == \E i \in 1..Len(m) : m[i].id = id

MapGet(m, id) == m[CHOOSE i \in 1..Len(m) : m[i].id = id].result

\* WidgetGenerator.generateFromToolResults
RECURSIVE generateFromToolResults(_)
generateFromToolResults(m) ==
  IF m = << >> THEN << >>
  ELSE (IF m[1].result.success /\ m[1].result.widgets # << >>
        THEN m[1].result.widgets ELSE << >>)
       \o generateFromToolResults(Tail(m))

----------------------------------------------------------------------------
(* LLM messages (types/llm.ts LLMMessage) *)

NoFeedback == [tool |-> NoVal, success |-> FALSE, data |-> NoVal, error |-> NoVal]

TextMessage(role, text) ==
  [role |-> role, text |-> text, raw |-> EmptyRaw, toolCallId |-> NoVal,
   feedback |-> NoFeedback]

AssistantRawMessage(raw) ==
  [role |-> "assistant", text |-> EmptyText, raw |-> raw, toolCallId |-> NoVal,
   feedback |-> NoFeedback]

ToolMessage(call, result) ==
  [role |-> "tool", text |-> EmptyText, raw |-> EmptyRaw, toolCallId |-> call.id,
   feedback |-> [tool |-> call.name, success |-> result.success,
                 data |-> result.data, error |-> result.error]]

\* Agent.buildToolResultMessages
RECURSIVE buildToolResultMessages(_, _)
buildToolResultMessages(calls, m) ==
  IF calls = << >> THEN << >>
  ELSE (IF MapHas(m, calls[1].id)
        THEN <<ToolMessage(calls[1], MapGet(m, calls[1].id))>> ELSE << >>)
       \o buildToolResultMessages(Tail(calls), m)

SystemPrompt == <<"system prompt">>

----------------------------------------------------------------------------
(* LLM widget descriptors (WidgetGenerator.parseFromLLMResponse) *)

KnownWidgetTypes ==
  {"email_preview", "calendar_event", "search_results", "form", "meeting_card",
   "flight_card", "custom"}

\* validateWidgetData reads data[field] / Object.entries(data): a descriptor
\* of a known type without `data` makes it throw a TypeError
createWidgetThrows(def) == def.type \in KnownWidgetTypes /\ ~def.hasData

\* generateWidgetId (widget-generator.ts:11-15): counter is ++widgetCounter
generateWidgetId(type, counter) == <<"widget", type, counter>>

\* createWidget / createCustomWidget; counter is the module's widgetCounter
\* after the increment
createWidget(def, counter) ==
  [id |-> generateWidgetId(def.type, counter), type |-> def.type, src |-> "llm"]

parseFromLLMResponseThrows(defs) ==
  \E i \in 1..Len(defs) : createWidgetThrows(defs[i])

\* widgetCounter is 0 when the process parses its first descriptor list
parseFromLLMResponse(defs) == [i \in 1..Len(defs) |-> createWidget(defs[i], i)]

----------------------------------------------------------------------------
(* Inputs: requests, LLM streams *)

UserTurn == [role |-> "user", content |-> <<"any", " ", "unread">>]

AssistantTurn == [role |-> "assistant", content |-> <<"hello">>]

SummaryTurn ==
  [role |-> "user", content |-> <<"Quick", " ", "recap", " ", "of", " ", "unread">>]

Requests == { << >>, <<UserTurn>>, <<SummaryTurn>>, <<UserTurn, AssistantTurn>> }

\* AgentConfig.maxToolIterations values; 0 stands for "not set"
ConfigChoices == {0, ConfiguredIterations}

Call(id, name) == [id |-> id, name |-> name]

JsonRaw(snake, camel, response, widgets) ==
  [kind |-> "json", plain |-> EmptyText, tool_calls |-> snake,
   toolCalls |-> camel, response |-> response, responseObject |-> NoObject,
   widgets |-> widgets]

JsonObjectRaw(obj) ==
  [JsonRaw(Absent, Absent, EmptyText, << >>) EXCEPT !.responseObject = obj]

TextRaw(t) == [EmptyRaw EXCEPT !.plain = t]

FinalRaws ==
  { JsonRaw(Absent, Absent, <<"You", " ", "have", " ", "mail">>, << >>),
    JsonRaw(Absent, Absent, EmptyText, << >>),
    JsonRaw(Absent, Absent, <<" ", "a", " ", " ", "b">>, << >>),
    JsonRaw(CallArray(<< >>), Absent, <<"ok">>, << >>),
    JsonRaw(Absent, Absent, <<"ok">>,
            <<[type |-> "email_preview", hasData |-> TRUE, hasVdom |-> FALSE]>>),
    JsonRaw(Absent, Absent, <<"ok">>,
            <<[type |-> "custom", hasData |-> FALSE, hasVdom |-> TRUE]>>),
    JsonRaw(Absent, StringValue, <<"ok">>, << >>),
    JsonRaw(StringValue, Absent, <<"ok">>, << >>),
    JsonObjectRaw(ResponseObject(<<"two", " ", "mails">>, <<"details">>, NoKey)),
    JsonObjectRaw(ResponseObject(NoKey, NoKey, <<"none">>)),
    [EmptyRaw EXCEPT !.kind = "badjson", !.plain = <<"oops", " ">>] }

ToolRaws ==
  { JsonRaw(CallArray(<<Call("c1", "search_emails"), Call("c2", "get_unread_emails")>>),
            Absent, EmptyText, << >>),
    JsonRaw(Absent,
            CallArray(<<Call("c1", "get_email_details"), Call("c2", "no_such_tool"),
                        Call("c3", "custom_tool")>>),
            <<"wait">>, << >>),
    \* an id the LLM wrote twice is kept by parseResponse (agent.ts:233-239)
    JsonRaw(CallArray(<<Call("c1", "no_such_tool"), Call("c1", "search_emails")>>),
            Absent, EmptyText, << >>) }

ContentChunk(raw) == [type |-> "content", content |-> raw]

DoneChunk == [type |-> "done", content |-> EmptyRaw]

ErrorChunk == [type |-> "error", content |-> EmptyRaw]

\* chunk sequences streamChat can yield
Streams ==
  { <<ContentChunk(r), DoneChunk>> : r \in FinalRaws \cup ToolRaws }
  \cup { <<ContentChunk(TextRaw(<<"hi">>)), ContentChunk(TextRaw(<<" ", "there">>)),
           DoneChunk>>,
         <<ErrorChunk>>,
         <<ContentChunk(JsonRaw(CallArray(<<Call("c1", "custom_tool")>>), Absent,
                                EmptyText, << >>)), ErrorChunk>> }

\* fullResponse += chunk.content
Concat(full, content) ==
  CASE full = EmptyRaw -> content
    [] full.kind = "text" /\ content.kind = "text" ->
         TextRaw(full.plain \o content.plain)

RECURSIVE consumeFrom_noReturn(_, _, _)
consumeFrom_noReturn(h, full, chunks) ==
  IF chunks = << >> THEN [helper |-> h, full |-> full, aborted |-> FALSE]
  ELSE IF chunks[1].type = "content" /\ chunks[1].content # EmptyRaw
       THEN consumeFrom_noReturn(h, Concat(full, chunks[1].content), Tail(chunks))
       ELSE IF chunks[1].type = "error"
            THEN consumeFrom_noReturn(sendError(h, "LLM_ERROR"), full, Tail(chunks))
            ELSE consumeFrom_noReturn(h, full, Tail(chunks))

consumeStream_noReturn(h, chunks) == consumeFrom_noReturn(h, EmptyRaw, chunks)

RECURSIVE consumeFrom(_, _, _)
consumeFrom(h, full, chunks) ==
  IF chunks = << >> THEN [helper |-> h, full |-> full, aborted |-> FALSE]
  ELSE IF chunks[1].type = "content" /\ chunks[1].content # EmptyRaw
       THEN consumeFrom(h, Concat(full, chunks[1].content), Tail(chunks))
       ELSE IF chunks[1].type = "error"
            THEN [helper |-> sendError(h, "LLM_ERROR"), full |-> full,
                  aborted |-> TRUE]
            ELSE consumeFrom(h, full, Tail(chunks))

\* agent.ts:149-158: the `for await` over llmProvider.streamChat(messages)
consumeStream(h, chunks) == consumeFrom(h, EmptyRaw, chunks)

----------------------------------------------------------------------------
(* Agent *)

\* agent.ts:129
maxIterations == IF config # 0 THEN config ELSE DEFAULT_MAX_TOOL_ITERATIONS

CapReached_offByOne(iter, max) == iter > max

\* agent.ts:131
CapReached(iter, max) == iter >= max

CapExit_asError(h) == sendError(h, "AGENT_ERROR")

\* agent.ts:132-136
CapExit(h) == sendDone(sendTextDelta(h, ApologyText))

CatchHandler_swallow(h) == h

\* agent.ts:111-117
CatchHandler(h) == sendError(h, "AGENT_ERROR")

\* ConversationManager.addUserMessage / addAssistantMessage / getMessages
addMessage(conv, role, content) == Append(conv, [role |-> role, content |-> content])

SliceLast_first(s, n) == IF Len(s) <= n THEN s ELSE SubSeq(s, 1, n)

\* history.slice(-10)
SliceLast(s, n) == IF Len(s) <= n THEN s ELSE SubSeq(s, Len(s) - n + 1, Len(s))

HistoryMessages(conv) == [i \in 1..Len(conv) |-> TextMessage(conv[i].role, conv[i].content)]

----------------------------------------------------------------------------
(* API-backed providers: TitanMailProvider (providers/types.ts) and        *)
(* TitanCalendarProvider (providers/titan-calendar-provider.ts), each a    *)
(* process singleton shared by every request.                              *)

MaxToolCalls == 2

STAGING_BASE_URL == "https://flockmail-backend.flock-staging.com/fa"

CALENDAR_API_BASE_URL == "https://titan-backend.flock-staging.com"

\* `session: SessionInfo | null` when it is null
NoSession == [session |-> NoVal, baseUrl |-> NoVal]

\* SessionInfo; baseUrl "" stands for a handle without baseUrl
SessionInfo(token, baseUrl) == [session |-> token, baseUrl |-> baseUrl]

NewMailProvider ==
  [session |-> NoSession, baseUrl |-> STAGING_BASE_URL, folders |-> << >>,
   foldersLoaded |-> FALSE]

\* calendarsCache = null; a cached list is [owner, version]: the token it
\* was fetched under and the version of the server's list it shows
NoCache == [owner |-> NoVal, version |-> 0]

NewCalendarProvider ==
  [session |-> NoSession, baseUrl |-> CALENDAR_API_BASE_URL,
   calendarsCache |-> NoCache]

\* TitanCalendarProvider.clearCache
clearCache(p) == [p EXCEPT !.calendarsCache = NoCache]

setSession_ifNone(p, session) ==
  IF p.session # NoSession THEN p
  ELSE [p EXCEPT !.session = session,
                 !.baseUrl = IF session.baseUrl # "" THEN session.baseUrl ELSE @,
                 !.folders = << >>,
                 !.foldersLoaded = FALSE]

\* TitanMailProvider.setSession
setSession(p, session) ==
  [p EXCEPT !.session = session,
            !.baseUrl = IF session.baseUrl # "" THEN session.baseUrl ELSE @,
            !.folders = << >>,
            !.foldersLoaded = FALSE]

\* TitanCalendarProvider.setSession: the base URL is fixed
calendarSetSession(p, session) ==
  [p EXCEPT !.session = session, !.calendarsCache = NoCache]

\* hasSession of either provider
hasSession(p) == p.session # NoSession

\* request of either provider: the token header and the base URL of the fetch
providerRequest(p) == [token |-> p.session.session, baseUrl |-> p.baseUrl]

Tasks == 1..2

\* pending: the downstream requests of the task that await their response
ReadyTask(handle) ==
  [pc |-> "ready", handle |-> handle, calls |-> 0, pending |-> << >>]

NotListed == 0 - 1

\* calendarVersion counts the updates applied to the server's calendar list;
\* listed is the version of the list returned last by a fetchCalendarList
\* call that began after the latest successful update_calendar
NewTitan == [calendarVersion |-> 0, listed |-> NotListed]

\* ChatRequest.sessionInfo of the two requests
HandleChoices ==
  { <<h1, h2>> : h1 \in {NoSession, SessionInfo("tokA", "urlA")},
                 h2 \in {NoSession, SessionInfo("tokB", "urlB"),
                         SessionInfo("tokB", "")} }

NoSessionTraffic ==
  /\ mail = NewMailProvider
  /\ calendar = NewCalendarProvider
  /\ tasks = [r \in Tasks |-> ReadyTask(NoSession)]
  /\ apiLog = << >>
  /\ lastInstalled = NoSession
  /\ titan = NewTitan

----------------------------------------------------------------------------
(* Prompt router (context/prompts/index.ts).  A query or keyword is the    *)
(* sequence of its characters.                                             *)

LowerLetters ==
  << "a", "b", "c", "d", "e", "f", "g", "h", "i", "j", "k", "l", "m",
     "n", "o", "p", "q", "r", "s", "t", "u", "v", "w", "x", "y", "z" >>

UpperLetters ==
  << "A", "B", "C", "D", "E", "F", "G", "H", "I", "J", "K", "L", "M",
     "N", "O", "P", "Q", "R", "S", "T", "U", "V", "W", "X", "Y", "Z" >>

IsUpper(c) == \E k \in DOMAIN UpperLetters : UpperLetters[k] = c

IsLower(c) == \E k \in DOMAIN LowerLetters : LowerLetters[k] = c

\* String.prototype.toLowerCase
toLowerCase(s) ==
  [i \in 1..Len(s) |->
     IF IsUpper(s[i])
     THEN LowerLetters[CHOOSE k \in DOMAIN UpperLetters : UpperLetters[k] = s[i]]
     ELSE s[i]]

\* the same text in capitals
toUpperCase(s) ==
  [i \in 1..Len(s) |->
     IF IsLower(s[i])
     THEN UpperLetters[CHOOSE k \in DOMAIN LowerLetters : LowerLetters[k] = s[i]]
     ELSE s[i]]

\* String.prototype.includes
includes(s, sub) ==
  \E i \in 0..(Len(s) - Len(sub)) : SubSeq(s, i + 1, i + Len(sub)) = sub

\* emailDomainPrompt.keywords
emailKeywords ==
  << <<"e", "m", "a", "i", "l">>,
     <<"e", "m", "a", "i", "l", "s">>,
     <<"m", "a", "i", "l">>,
     <<"m", "a", "i", "l", "s">>,
     <<"i", "n", "b", "o", "x">>,
     <<"m", "e", "s", "s", "a", "g", "e">>,
     <<"m", "e", "s", "s", "a", "g", "e", "s">>,
     <<"u", "n", "r", "e", "a", "d">>,
     <<"s", "e", "n", "t">>,
     <<"d", "r", "a", "f", "t">>,
     <<"d", "r", "a", "f", "t", "s">>,
     <<"s", "p", "a", "m">>,
     <<"t", "r", "a", "s", "h">>,
     <<"s", "e", "n", "d", "e", "r">>,
     <<"f", "r", "o", "m">>,
     <<"t", "o">>,
     <<"s", "u", "b", "j", "e", "c", "t">>,
     <<"a", "t", "t", "a", "c", "h", "m", "e", "n", "t">>,
     <<"r", "e", "p", "l", "y">>,
     <<"f", "o", "r", "w", "a", "r", "d">>,
     <<"a", "r", "c", "h", "i", "v", "e">>,
     <<"r", "e", "c", "e", "i", "v", "e", "d">>,
     <<"s", "u", "b", "m", "i", "t", "t", "e", "d">>,
     <<"c", "o", "n", "f", "i", "r", "m", "a", "t", "i", "o", "n">>,
     <<"r", "e", "c", "e", "i", "p", "t">>,
     <<"i", "n", "v", "o", "i", "c", "e">>,
     <<"d", "o", "c", "u", "m", "e", "n", "t">>,
     <<"p", "r", "o", "o", "f">>,
     <<"s", "t", "a", "t", "u", "s">>,
     <<"u", "p", "d", "a", "t", "e">>,
     <<"n", "o", "t", "i", "f", "i", "c", "a", "t", "i", "o", "n">>,
     <<"n", "e", "w", "s", "l", "e", "t", "t", "e", "r">>,
     <<"s", "u", "b", "s", "c", "r", "i", "p", "t", "i", "o", "n">>,
     <<"o", "r", "d", "e", "r">>,
     <<"s", "h", "i", "p", "p", "i", "n", "g">>,
     <<"t", "r", "a", "c", "k", "i", "n", "g">>,
     <<"t", "i", "c", "k", "e", "t">>,
     <<"s", "u", "p", "p", "o", "r", "t">>,
     <<"r", "e", "q", "u", "e", "s", "t">>,
     <<"a", "p", "p", "l", "i", "c", "a", "t", "i", "o", "n">>,
     <<"r", "e", "s", "p", "o", "n", "s", "e">> >>

\* calendarDomainPrompt.keywords
calendarKeywords ==
  << <<"c", "a", "l", "e", "n", "d", "a", "r">>,
     <<"m", "e", "e", "t", "i", "n", "g">>,
     <<"m", "e", "e", "t", "i", "n", "g", "s">>,
     <<"e", "v", "e", "n", "t">>,
     <<"e", "v", "e", "n", "t", "s">>,
     <<"s", "c", "h", "e", "d", "u", "l", "e">>,
     <<"a", "p", "p", "o", "i", "n", "t", "m", "e", "n", "t">>,
     <<"a", "p", "p", "o", "i", "n", "t", "m", "e", "n", "t", "s">>,
     <<"b", "u", "s", "y">>,
     <<"f", "r", "e", "e">>,
     <<"a", "v", "a", "i", "l", "a", "b", "l", "e">>,
     <<"a", "v", "a", "i", "l", "a", "b", "i", "l", "i", "t", "y">>,
     <<"t", "o", "d", "a", "y">>,
     <<"t", "o", "m", "o", "r", "r", "o", "w">>,
     <<"t", "h", "i", "s", " ", "w", "e", "e", "k">>,
     <<"n", "e", "x", "t", " ", "w", "e", "e", "k">>,
     <<"b", "o", "o", "k">>,
     <<"s", "c", "h", "e", "d", "u", "l", "e">>,
     <<"r", "e", "s", "c", "h", "e", "d", "u", "l", "e">>,
     <<"c", "a", "n", "c", "e", "l">>,
     <<"a", "t", "t", "e", "n", "d", "e", "e">>,
     <<"a", "t", "t", "e", "n", "d", "e", "e", "s">>,
     <<"i", "n", "v", "i", "t", "e">>,
     <<"i", "n", "v", "i", "t", "a", "t", "i", "o", "n">>,
     <<"a", "g", "e", "n", "d", "a">>,
     <<"t", "i", "m", "e">>,
     <<"s", "l", "o", "t">>,
     <<"w", "h", "e", "n">> >>

\* widgetCapabilityPrompt.keywords
widgetKeywords ==
  << <<"f", "o", "r", "m">>,
     <<"s", "u", "r", "v", "e", "y">>,
     <<"q", "u", "i", "z">>,
     <<"p", "o", "l", "l">>,
     <<"q", "u", "e", "s", "t", "i", "o", "n", "n", "a", "i", "r", "e">>,
     <<"c", "r", "e", "a", "t", "e">>,
     <<"b", "u", "i", "l", "d">>,
     <<"g", "e", "n", "e", "r", "a", "t", "e">>,
     <<"m", "a", "k", "e">>,
     <<"n", "p", "s">>,
     <<"f", "e", "e", "d", "b", "a", "c", "k">>,
     <<"r", "a", "t", "i", "n", "g">>,
     <<"c", "u", "s", "t", "o", "m">>,
     <<"i", "n", "t", "e", "r", "a", "c", "t", "i", "v", "e">>,
     <<"u", "i">>,
     <<"i", "n", "t", "e", "r", "f", "a", "c", "e">>,
     <<"t", "e", "m", "p", "l", "a", "t", "e">>,
     <<"w", "i", "d", "g", "e", "t">> >>

\* context/prompts/index.ts:26 and :32
domainPrompts ==
  << [domain |-> "email",    keywords |-> emailKeywords],
     [domain |-> "calendar", keywords |-> calendarKeywords],
     [domain |-> "general",  keywords |-> << >>] >>

capabilityPrompts ==
  << [capability |-> "widgets", keywords |-> widgetKeywords] >>

\* keywords.some(kw => lowerQuery.includes(kw.toLowerCase()))
hasKeyword(lowerQuery, keywords) ==
  \E k \in DOMAIN keywords : includes(lowerQuery, toLowerCase(keywords[k]))

detectDomains_withGeneral(query) ==
  LET lowerQuery == toLowerCase(query)
      Hit(dp) == Len(dp.keywords) = 0 \/ hasKeyword(lowerQuery, dp.keywords)
      detected == SelectSeq(domainPrompts, Hit)
  IN  [i \in DOMAIN detected |-> detected[i].domain]

detectDomains_caseSensitive(query) ==
  LET Hit(dp) == Len(dp.keywords) # 0 /\ hasKeyword(query, dp.keywords)
      detected == SelectSeq(domainPrompts, Hit)
  IN  IF Len(detected) > 0
      THEN [i \in DOMAIN detected |-> detected[i].domain]
      ELSE <<"general">>

\* PromptRouter.detectDomains (index.ts:75-88)
detectDomains(query) ==
  LET lowerQuery == toLowerCase(query)
      Hit(dp) == Len(dp.keywords) # 0 /\ hasKeyword(lowerQuery, dp.keywords)
      detected == SelectSeq(domainPrompts, Hit)
  IN  IF Len(detected) > 0
      THEN [i \in DOMAIN detected |-> detected[i].domain]
      ELSE <<"general">>

\* PromptRouter.detectCapabilities (index.ts:93-105)
detectCapabilities(query) ==
  LET lowerQuery == toLowerCase(query)
      Hit(cp) == hasKeyword(lowerQuery, cp.keywords)
      detected == SelectSeq(capabilityPrompts, Hit)
  IN  [i \in DOMAIN detected |-> detected[i].capability]

\* ToolDomain (types/tools.ts) and PromptDomain
ToolDomains == {"email", "calendar", "general"}

\* a ToolModel carries domain; a plain ToolDefinition has no such key
ToolModel(name, domain) == [name |-> name, domain |-> domain]

ToolDefinition(name) == [name |-> name, domain |-> NoVal]

\* 'domain' in tool
HasDomainKey(tool) == tool.domain # NoVal

\* Array.prototype.includes
ArrayIncludes(arr, x) == \E i \in DOMAIN arr : arr[i] = x

getRelevantTools_tagged(allTools, domains) ==
  LET Keep(tool) == HasDomainKey(tool) /\ ArrayIncludes(domains, tool.domain)
  IN  SelectSeq(allTools, Keep)

\* PromptRouter.getRelevantTools (index.ts:111-119)
getRelevantTools(allTools, domains) ==
  LET Keep(tool) == IF HasDomainKey(tool)
                    THEN ArrayIncludes(domains, tool.domain)
                    ELSE TRUE
  IN  SelectSeq(allTools, Keep)

----------------------------------------------------------------------------
(* ToolRegistry (tools/tool-registry.ts).  this.tools is a Map: a sequence *)
(* of [name, definition, handler] in insertion order, one entry per name.  *)

NewRegistry == << >>

RegistryHas(tools, name) == \E i \in DOMAIN tools : tools[i].name = name

\* Map.prototype.set: an existing key keeps its position
RegistrySet(tools, name, definition, handler) ==
  LET entry == [name |-> name, definition |-> definition, handler |-> handler]
  IN  IF RegistryHas(tools, name)
      THEN [i \in DOMAIN tools |-> IF tools[i].name = name THEN entry ELSE tools[i]]
      ELSE Append(tools, entry)

\* ToolRegistry.register (tool-registry.ts:87-93)
register(tools, definition, handler) ==
  RegistrySet(tools, definition.name, definition, handler)

unregister_keep(tools, name) == tools

\* ToolRegistry.unregister (tool-registry.ts:143-145): Map.delete
unregister(tools, name) ==
  LET Other(t) == t.name # name
  IN  SelectSeq(tools, Other)

\* ToolRegistry.getDefinitionsByDomain (tool-registry.ts:120-131)
getDefinitionsByDomain(tools, domains) ==
  LET Keep(t) == IF HasDomainKey(t.definition)
                 THEN ArrayIncludes(domains, t.definition.domain)
                 ELSE TRUE
      kept == SelectSeq(tools, Keep)
  IN  [i \in DOMAIN kept |-> kept[i].definition]

IdleRouter == [phase |-> "idle"]

NoRegistryCall == [phase |-> "idle"]

IdleExec == [phase |-> "idle"]

IdleLlm == [phase |-> "idle"]

NoToolWork ==
  /\ router = IdleRouter
  /\ registry = NewRegistry
  /\ regCall = NoRegistryCall
  /\ exec = IdleExec
  /\ llm = IdleLlm

----------------------------------------------------------------------------
(* One /chat request: routes/chat.ts:56 builds the StreamHelper, then       *)
(* Agent.processRequest runs.                                              *)

Init ==
  /\ streamHelper = NewStreamHelper
  /\ pc = "start"
  /\ config \in ConfigChoices
  /\ request \in Requests
  /\ conversation = << >>
  /\ messages = << >>
  /\ iteration = 0
  /\ fullResponse = EmptyRaw
  /\ toolCalls = << >>
  /\ running = {}
  /\ results = << >>
  /\ words = << >>
  /\ responseText = EmptyText
  /\ llmWidgets = << >>
  /\ llmCalls = 0
  /\ toolExecs = 0
  /\ settled = << >>
  /\ firstParse = "none"
  /\ llmFailed = FALSE
  /\ emitCalls = [total |-> 0, late |-> 0]
  /\ probed = "none"
  /\ contextQuery = "none"
  /\ NoSessionTraffic
  /\ NoToolWork

sessVars == <<mail, calendar, tasks, apiLog, lastInstalled, titan>>

toolVars == <<router, registry, regCall, exec, llm>>

loopVars == <<messages, iteration, fullResponse, toolCalls, running, results,
              words, responseText, llmWidgets>>

histVars == <<llmCalls, toolExecs, settled, firstParse, llmFailed, emitCalls, probed, contextQuery>>

\* agent.ts:73-81: read the last message, record the user turn
Begin ==
  /\ pc = "start"
  /\ IF request = << >>
     THEN /\ streamHelper' = CatchHandler(streamHelper)
          /\ pc' = "returned"
          /\ UNCHANGED conversation
     ELSE /\ conversation' =
               IF Last(request).role = "user"
               THEN addMessage(conversation, "user", Last(request).content)
               ELSE conversation
          /\ pc' = "probe"
          /\ UNCHANGED streamHelper
  /\ UNCHANGED <<config, request, sessVars, toolVars, loopVars, histVars>>

AfterProbe_noReturn(isAvailable) == "context"

\* agent.ts:84-88: `return` after the LLM_UNAVAILABLE error
AfterProbe(isAvailable) == IF isAvailable THEN "context" ELSE "returned"

\* agent.ts:83-88: llmProvider.isAvailable()
Probe ==
  /\ pc = "probe"
  /\ \E isAvailable \in BOOLEAN :
       /\ probed' = IF isAvailable THEN "up" ELSE "down"
       /\ streamHelper' = IF isAvailable THEN streamHelper
                          ELSE sendError(streamHelper, "LLM_UNAVAILABLE")
       /\ pc' = AfterProbe(isAvailable)
  /\ UNCHANGED <<config, request, sessVars, toolVars, conversation, loopVars, llmCalls, toolExecs,
                 settled, firstParse, llmFailed, emitCalls, contextQuery>>

\* agent.ts:90-104: buildContext (no handler around its provider queries),
\* system prompt, history window
BuildContext ==
  /\ pc = "context"
  /\ \E queryOk \in BOOLEAN :
       /\ contextQuery' = IF queryOk THEN "ok" ELSE "failed"
       /\ IF ~queryOk
          THEN /\ streamHelper' = CatchHandler(streamHelper)
               /\ pc' = "returned"
               /\ UNCHANGED messages
          ELSE /\ messages' = <<TextMessage("system", SystemPrompt)>>
                              \o SliceLast(HistoryMessages(conversation), HistoryWindow)
               /\ pc' = "loop"
               /\ UNCHANGED streamHelper
  /\ UNCHANGED <<config, request, sessVars, toolVars, conversation, iteration, fullResponse, toolCalls,
                 running, results, words, responseText, llmWidgets, llmCalls,
                 toolExecs, settled, firstParse, llmFailed, emitCalls, probed>>

StatusText_always(iter) == "Thinking..."

\* agent.ts:141-146
StatusText(iter) == IF iter = 0 THEN "Thinking..." ELSE "Processing tool results..."

\* agent.ts:129-146: iteration cap, status event
LoopEntry ==
  /\ pc = "loop"
  /\ IF CapReached(iteration, maxIterations)
     THEN /\ streamHelper' = CapExit(streamHelper)
          /\ pc' = "returned"
     ELSE /\ streamHelper' = sendStatus(streamHelper, StatusText(iteration))
          /\ pc' = "llm"
  /\ UNCHANGED <<config, request, sessVars, toolVars, conversation, loopVars, histVars>>

OutcomesOf(call) ==
  IF RegistryGet(call.name) THEN Registry[call.name] ELSE {"unknown"}

HandlerCount(calls) == Cardinality({i \in 1..Len(calls) : RegistryGet(calls[i].name)})

HasErrorChunk(chunks) == \E k \in 1..Len(chunks) : chunks[k].type = "error"

\* agent.ts:148-169 and 194-195: consume the stream, parse, then either
\* dispatch the batch (every handler is invoked before the first await of
\* executeMany returns) or fix the final response text
LLMStream ==
  /\ pc = "llm"
  /\ llmCalls' = llmCalls + 1
  /\ \E chunks \in Streams :
       LET c == consumeStream(streamHelper, chunks)
           parsed == parseResponse(c.full)
       IN IF c.aborted
          THEN /\ streamHelper' = c.helper
               /\ pc' = "returned"
               /\ llmFailed' = HasErrorChunk(chunks)
               /\ UNCHANGED <<fullResponse, toolCalls, running, results, words,
                              responseText, llmWidgets, toolExecs, firstParse>>
          ELSE /\ fullResponse' = c.full
               /\ llmFailed' = HasErrorChunk(chunks)
               /\ firstParse' = IF iteration # 0 THEN firstParse
                                ELSE IF JsLength(parsed.toolCalls) = 0 THEN "final"
                                ELSE "tools"
               /\ IF HasToolCalls(parsed)
                  THEN IF parsed.toolCalls.shape # "array"
                       THEN \* toolCalls.map is not a function
                            /\ streamHelper' = CatchHandler(c.helper)
                            /\ pc' = "returned"
                            /\ UNCHANGED <<toolCalls, running, results, words,
                                           responseText, llmWidgets, toolExecs>>
                       ELSE /\ toolCalls' = parsed.toolCalls.calls
                            /\ running' = 1..Len(parsed.toolCalls.calls)
                            /\ results' = << >>
                            /\ toolExecs' = toolExecs + HandlerCount(parsed.toolCalls.calls)
                            /\ streamHelper' = c.helper
                            /\ pc' = "tools"
                            /\ UNCHANGED <<words, responseText, llmWidgets>>
                  ELSE IF streamTextThrows(parsed)
                       THEN /\ streamHelper' = CatchHandler(c.helper)
                            /\ pc' = "returned"
                            /\ UNCHANGED <<toolCalls, running, results, words,
                                           responseText, llmWidgets, toolExecs>>
                       ELSE /\ responseText' = ResponseTextOf(parsed, c.full)
                            /\ words' = SplitWords(ResponseTextOf(parsed, c.full))
                            /\ llmWidgets' = parsed.widgets
                            /\ streamHelper' = c.helper
                            /\ pc' = "stream"
                            /\ UNCHANGED <<toolCalls, running, results, toolExecs>>
  /\ UNCHANGED <<config, request, sessVars, toolVars, conversation, messages, iteration, settled,
                 emitCalls, probed, contextQuery>>

\* a call whose tool is unknown settles without I/O, so before any handler
\* and in list order; handlers settle in any order
MaySettle(i) ==
  IF RegistryGet(toolCalls[i].name)
  THEN \A j \in running : RegistryGet(toolCalls[j].name)
  ELSE \A j \in running : j < i => RegistryGet(toolCalls[j].name)

\* message-tools.ts:629-632: one call of the batch settles; results.set
Settle(i) ==
  /\ pc = "tools"
  /\ i \in running
  /\ MaySettle(i)
  /\ \E outcome \in OutcomesOf(toolCalls[i]) :
       LET e == execute(toolCalls[i], outcome)
       IN IF e.rejected
          THEN \* Promise.all rejects; processRequest's catch runs
               /\ streamHelper' = CatchHandler(streamHelper)
               /\ pc' = "returned"
               /\ UNCHANGED <<running, results, settled>>
          ELSE /\ results' = MapSet(results, toolCalls[i].id, e.result)
               /\ running' = running \ {i}
               /\ settled' = Append(settled, i)
               /\ UNCHANGED <<streamHelper, pc>>
  /\ UNCHANGED <<config, request, sessVars, toolVars, conversation, messages, iteration, fullResponse,
                 toolCalls, words, responseText, llmWidgets, llmCalls, toolExecs,
                 firstParse, llmFailed, emitCalls, probed, contextQuery>>

\* agent.ts:171-190: the batch has joined; emit the tool widgets, extend the
\* message list, recurse
Join ==
  /\ pc = "tools"
  /\ running = {}
  /\ streamHelper' = sendWidgets(streamHelper, generateFromToolResults(results))
  /\ messages' = messages \o <<AssistantRawMessage(fullResponse)>>
                 \o buildToolResultMessages(toolCalls, results)
  /\ iteration' = iteration + 1
  /\ settled' = << >>
  /\ pc' = "loop"
  /\ UNCHANGED <<config, request, sessVars, toolVars, conversation, fullResponse, toolCalls, running,
                 results, words, responseText, llmWidgets, llmCalls, toolExecs,
                 firstParse, llmFailed, emitCalls, probed, contextQuery>>

\* agent.ts:314-318: one word of streamText, then the 10 ms pause
StreamWord ==
  /\ pc = "stream"
  /\ words # << >>
  /\ streamHelper' = sendTextDelta(streamHelper, Head(words))
  /\ words' = Tail(words)
  /\ UNCHANGED <<pc, config, request, sessVars, toolVars, conversation, messages, iteration,
                 fullResponse, toolCalls, running, results, responseText,
                 llmWidgets, histVars>>

\* agent.ts:200-211: LLM widgets, assistant turn, done
Finish ==
  /\ pc = "stream"
  /\ words = << >>
  /\ IF llmWidgets # << >> /\ parseFromLLMResponseThrows(llmWidgets)
     THEN /\ streamHelper' = CatchHandler(streamHelper)
          /\ UNCHANGED conversation
     ELSE /\ streamHelper' =
               sendDone(sendWidgets(streamHelper, parseFromLLMResponse(llmWidgets)))
          /\ conversation' = addMessage(conversation, "assistant", responseText)
  /\ pc' = "returned"
  /\ UNCHANGED <<config, request, sessVars, toolVars, loopVars, histVars>>

\* routes/chat.ts:59-61: the client goes away; the handler only logs
Disconnect ==
  /\ pc # "returned"
  /\ streamHelper.res.alive
  /\ streamHelper' = [streamHelper EXCEPT !.res = ResDrop(@)]
  /\ UNCHANGED <<pc, config, request, sessVars, toolVars, conversation, loopVars, histVars>>

Next ==
  \/ Begin
  \/ Probe
  \/ BuildContext
  \/ LoopEntry
  \/ LLMStream
  \/ \E i \in running : Settle(i)
  \/ Join
  \/ StreamWord
  \/ Finish
  \/ Disconnect

Spec == Init /\ [][Next]_vars

----------------------------------------------------------------------------
(* The StreamHelper on its own: any caller, any order of calls *)

SinkTexts == { <<"a">>, <<" ">> }

SinkWidget == [id |-> generateWidgetId("custom", 1), type |-> "custom", src |-> "llm"]

SinkCodes == {"LLM_ERROR", "AGENT_ERROR"}

InitSink ==
  /\ streamHelper = NewStreamHelper
  /\ pc = "sink"
  /\ config = 0
  /\ request = << >>
  /\ conversation = << >>
  /\ messages = << >>
  /\ iteration = 0
  /\ fullResponse = EmptyRaw
  /\ toolCalls = << >>
  /\ running = {}
  /\ results = << >>
  /\ words = << >>
  /\ responseText = EmptyText
  /\ llmWidgets = << >>
  /\ llmCalls = 0
  /\ toolExecs = 0
  /\ settled = << >>
  /\ firstParse = "none"
  /\ llmFailed = FALSE
  /\ emitCalls = [total |-> 0, late |-> 0]
  /\ probed = "none"
  /\ contextQuery = "none"
  /\ NoSessionTraffic
  /\ NoToolWork

agentVars == <<pc, config, request, sessVars, toolVars, conversation, loopVars, llmCalls, toolExecs,
               settled, firstParse, llmFailed, probed, contextQuery>>

\* one call of a StreamHelper method, h2 being the helper it leaves behind
SinkCall(h2) ==
  /\ pc = "sink"
  /\ emitCalls.total < MaxSinkCalls
  /\ streamHelper' = h2
  /\ emitCalls' = [total |-> emitCalls.total + 1,
                   late |-> emitCalls.late + (IF streamHelper.closed THEN 1 ELSE 0)]
  /\ UNCHANGED agentVars

CallSendTextDelta == \E t \in SinkTexts : SinkCall(sendTextDelta(streamHelper, t))

CallSendWidget == SinkCall(sendWidget(streamHelper, SinkWidget))

CallSendStatus == SinkCall(sendStatus(streamHelper, "Thinking..."))

CallSendDone == SinkCall(sendDone(streamHelper))

CallSendError == \E code \in SinkCodes : SinkCall(sendError(streamHelper, code))

CallClose == SinkCall(close(streamHelper))

NextSink ==
  \/ CallSendTextDelta
  \/ CallSendWidget
  \/ CallSendStatus
  \/ CallSendDone
  \/ CallSendError
  \/ CallClose
  \/ Disconnect

SinkSpec == InitSink /\ [][NextSink]_vars

----------------------------------------------------------------------------
(* Properties *)

wire == streamHelper.res.wire

IsTerminal(event) == event.type \in {"done", "error"}

Terminals == {k \in 1..Len(wire) : IsTerminal(wire[k])}

ErrorEvents == {k \in 1..Len(wire) : wire[k].type = "error"}

\* C1: every processRequest call puts exactly one terminal event (done or
\* error) on the sink: never two while it runs, exactly one once it returned.
C1_ExactlyOneTerminal ==
  /\ Cardinality(Terminals) <= 1
  /\ pc = "returned" => Cardinality(Terminals) = 1

C1_Witness ==
  /\ pc = "returned"
  /\ llmCalls >= 2
  /\ Cardinality(Terminals) = 1
  /\ Last(wire).type = "done"

\* position in the batch of the call that ran tool `name`
CallPos(name) == CHOOSE k \in 1..Len(toolCalls) : toolCalls[k].name = name

\* the events of the current iteration: those after the last status event
LastStatus ==
  IF \E k \in 1..Len(wire) : wire[k].type = "status"
  THEN CHOOSE k \in 1..Len(wire) :
         /\ wire[k].type = "status"
         /\ \A j \in (k + 1)..Len(wire) : wire[j].type # "status"
  ELSE 0

ToolWidgetEvents ==
  {k \in (LastStatus + 1)..Len(wire) :
     wire[k].type = "widget" /\ wire[k].widget.src # "llm"}

\* C2: the widget events of a batch appear in the order in which the LLM
\* listed the calls, whatever the completion order of the handlers.
C2_WidgetsInCallOrder ==
  (pc = "loop" /\ iteration > 0) =>
    \A a, b \in ToolWidgetEvents :
      a < b => CallPos(wire[a].widget.src) <= CallPos(wire[b].widget.src)

\* C3: the number of streamChat invocations of a turn never exceeds
\* maxIterations.
C3_LLMCallsBounded == llmCalls <= maxIterations

C3_Witness ==
  /\ pc = "returned"
  /\ config = 0
  /\ llmCalls = DEFAULT_MAX_TOOL_ITERATIONS

\* C4: if the first response of the turn parses to no tool calls, the LLM is
\* invoked exactly once and no handler runs.
C4_NoToolsOneCall == firstParse = "final" => (llmCalls = 1 /\ toolExecs = 0)

C4_Witness ==
  /\ pc = "returned"
  /\ firstParse = "final"
  /\ fullResponse.tool_calls = CallArray(<< >>)
  /\ Last(wire).type = "done"

\* C5: a turn whose every iteration up to the cap had tool calls ends with the
\* apology text_delta followed by done, with no error event and with exactly
\* maxIterations LLM invocations.
C5_CapEndsWithApology ==
  (pc = "returned" /\ iteration >= maxIterations) =>
    /\ Len(wire) >= 2
    /\ wire[Len(wire) - 1] = TextDeltaEvent(ApologyText)
    /\ wire[Len(wire)] = DoneEvent
    /\ ErrorEvents = {}
    /\ llmCalls = maxIterations

C5_Witness ==
  /\ pc = "returned"
  /\ config = 0
  /\ iteration = DEFAULT_MAX_TOOL_ITERATIONS
  /\ toolExecs > 0

\* C6: once the LLM stream yielded an error chunk, the turn has returned with
\* error LLM_ERROR as its last event, and from then on there is no LLM
\* invocation, no handler invocation and no further event.
C6_LLMErrorEndsTurn ==
  /\ [](llmFailed =>
          /\ pc = "returned"
          /\ running = {}
          /\ wire # << >>
          /\ Last(wire) = ErrorEvent("LLM_ERROR")
          /\ Cardinality(Terminals) = 1)
  /\ [][llmFailed => (llmCalls' = llmCalls /\ toolExecs' = toolExecs
                      /\ streamHelper' = streamHelper)]_vars

C6_Witness ==
  /\ llmFailed
  /\ iteration >= 1
  /\ Last(wire) = ErrorEvent("LLM_ERROR")

HasTerminal == Terminals # {}

\* C7: after done or error went out on a sink, no later call writes anything
\* more or ends the response again.
C7_TerminalIsFinal ==
  [][HasTerminal =>
       /\ streamHelper'.res.wire = streamHelper.res.wire
       /\ streamHelper'.res.ended = streamHelper.res.ended
       /\ streamHelper'.closed]_vars

C7_Witness ==
  /\ pc = "sink"
  /\ HasTerminal
  /\ emitCalls.late >= 2
  /\ streamHelper.res.ended = 1

\* C8: a failed write closes the sink, and no write is attempted after it.
C8_WriteFailureCloses ==
  /\ streamHelper.res.deadWrites > 0 => isClosed(streamHelper)
  /\ streamHelper.res.deadWrites <= 1

\* C9: after the client disconnected, no event of the turn causes a write to
\* the response.
C9_NoWriteAfterDisconnect == streamHelper.res.deadWrites = 0

FailingCall(call) ==
  \/ ~RegistryGet(call.name)
  \/ Registry[call.name] \subseteq {"fails", "throws"}

\* C10: a failing call of a dispatched batch (unknown tool, handler throws,
\* handler returns success=false) never ends the turn and never puts an error
\* event on the sink; after the join its failure is in the tool-result message
\* of that call and the loop is at the entry of the next iteration.
C10_ToolFailureIsFeedback ==
  /\ running # {} => (pc = "tools" /\ Terminals = {})
  /\ (pc = "loop" /\ iteration > 0) =>
       /\ ErrorEvents = {}
       /\ \A k \in 1..Len(toolCalls) :
            FailingCall(toolCalls[k]) =>
              \E j \in 1..Len(messages) :
                /\ j > Len(messages) - Len(toolCalls)
                /\ messages[j].role = "tool"
                /\ messages[j].toolCallId = toolCalls[k].id
                /\ messages[j].feedback.tool = toolCalls[k].name
                /\ ~messages[j].feedback.success
                /\ messages[j].feedback.error # NoVal

DistinctIds(calls) ==
  \A i, j \in 1..Len(calls) : i # j => calls[i].id # calls[j].id

\* the result execute owes to one call, whatever the other calls do
OwnResult(call, result) ==
  IF ~RegistryGet(call.name) THEN result = UnknownToolResult
  ELSE IF Registry[call.name] = {"throws"} THEN result = ThrownResult
  ELSE \E o \in Registry[call.name] : result = HandlerResult(call.name, o)

\* C11: for a batch with pairwise distinct ids, the map of executeMany holds
\* exactly one entry per settled call, under that call's id and with that
\* call's own result (success=false for an unknown tool or a throwing
\* handler); the turn moves past the batch only when every call has settled,
\* and then the map has one entry per call of the batch.
C11_ExecuteManyJoins ==
  DistinctIds(toolCalls) =>
    /\ (pc = "loop" /\ iteration > 0) => running = {}
    /\ (pc = "tools" \/ (pc = "loop" /\ iteration > 0)) =>
         /\ Len(results) = Len(toolCalls) - Cardinality(running)
         /\ \A k \in 1..Len(toolCalls) :
              k \notin running =>
                /\ MapHas(results, toolCalls[k].id)
                /\ OwnResult(toolCalls[k], MapGet(results, toolCalls[k].id))
                /\ FailingCall(toolCalls[k]) =>
                     ~MapGet(results, toolCalls[k].id).success

C11_Witness ==
  /\ pc = "tools"
  /\ running = {}
  /\ settled = <<2, 3, 1>>
  /\ Len(results) = 3
  /\ MapGet(results, "c2") = UnknownToolResult
  /\ MapGet(results, "c3") = ThrownResult

----------------------------------------------------------------------------
(* The parse step on its own: agent.ts:163-169 applied to one raw output.  *)

ParseIds == {"", "a", "b"}

ParseNames == {"search_emails", "no_such_tool"}

ParseCalls == { Call(id, name) : id \in ParseIds, name \in ParseNames }

\* arrays of at most two calls: ids supplied, omitted ("") or repeated
ParseArrays ==
  { << >> } \cup { <<c>> : c \in ParseCalls }
  \cup { <<c, d>> : c \in ParseCalls, d \in ParseCalls }

ParseRaws ==
  { JsonRaw(CallArray(cs), Absent, <<"ok">>, << >>) : cs \in ParseArrays }
  \cup { JsonRaw(Absent, CallArray(cs), <<"ok">>, << >>) : cs \in ParseArrays }
  \cup FinalRaws

InitParse ==
  /\ streamHelper = NewStreamHelper
  /\ pc = "parse"
  /\ config = 0
  /\ request = <<UserTurn>>
  /\ conversation = << >>
  /\ messages = << >>
  /\ iteration = 0
  /\ fullResponse \in ParseRaws
  /\ toolCalls = << >>
  /\ running = {}
  /\ results = << >>
  /\ words = << >>
  /\ responseText = EmptyText
  /\ llmWidgets = << >>
  /\ llmCalls = 0
  /\ toolExecs = 0
  /\ settled = << >>
  /\ firstParse = "none"
  /\ llmFailed = FALSE
  /\ emitCalls = [total |-> 0, late |-> 0]
  /\ probed = "none"
  /\ contextQuery = "none"
  /\ NoSessionTraffic
  /\ NoToolWork

\* agent.ts:163-169, 194-195: parse, then hand the batch to executeMany or
\* fix the response text
ParseStep ==
  /\ pc = "parse"
  /\ LET parsed == parseResponse(fullResponse)
     IN IF HasToolCalls(parsed)
        THEN /\ toolCalls' = IF parsed.toolCalls.shape = "array"
                             THEN parsed.toolCalls.calls ELSE << >>
             /\ pc' = IF parsed.toolCalls.shape = "array" THEN "handed" ELSE "threw"
             /\ UNCHANGED <<responseText, llmWidgets>>
        ELSE IF streamTextThrows(parsed)
             THEN /\ pc' = "threw"
                  /\ UNCHANGED <<toolCalls, responseText, llmWidgets>>
             ELSE /\ responseText' = ResponseTextOf(parsed, fullResponse)
                  /\ llmWidgets' = parsed.widgets
                  /\ pc' = "parsed"
                  /\ UNCHANGED toolCalls
  /\ UNCHANGED <<streamHelper, config, request, sessVars, toolVars, conversation, messages,
                 iteration, fullResponse, running, results, words, histVars>>

NextParse == ParseStep

ParseSpec == InitParse /\ [][NextParse]_vars

\* C12: every call of a batch handed to the executor has a non-empty id that
\* differs from the id of every other call of the batch.
C12_IdsUniqueNonEmpty ==
  pc = "handed" =>
    /\ \A i \in 1..Len(toolCalls) : toolCalls[i].id # ""
    /\ DistinctIds(toolCalls)

\* chat.ts:36-45 lets any array through; the claim's rejected requests
InvalidRequest(msgs) ==
  IF msgs = << >> THEN TRUE ELSE Last(msgs).role # "user"

\* C13: for a request whose message list is empty or does not end with a user
\* turn, the turn consists of one error event with code VALIDATION_ERROR, and
\* no turn is recorded, no LLM call is made and no tool handler is invoked.
C13_InvalidRequestRejected ==
  InvalidRequest(request) =>
    /\ pc \in {"start", "returned"}
    /\ conversation = << >>
    /\ llmCalls = 0
    /\ toolExecs = 0
    /\ \A k \in ErrorEvents : wire[k].arg = "VALIDATION_ERROR"
    /\ (pc = "returned" /\ streamHelper.res.alive) => ErrorEvents # {}

\* C14: when the availability probe fails, the turn is over with the error
\* event LLM_UNAVAILABLE as its only event (nothing at all if the client had
\* gone), and neither the LLM stream nor any tool handler is ever invoked.
C14_ProbeFailureEndsTurn ==
  probed = "down" =>
    /\ pc = "returned"
    /\ llmCalls = 0
    /\ toolExecs = 0
    /\ \/ wire = <<ErrorEvent("LLM_UNAVAILABLE")>>
       \/ (wire = << >> /\ ~streamHelper.res.alive)

C14_Witness ==
  /\ probed = "down"
  /\ pc = "returned"
  /\ wire = <<ErrorEvent("LLM_UNAVAILABLE")>>
  /\ Len(conversation) = 1

\* C15: when the user query of the turn contains a summary keyword, no widget
\* event that comes from a tool result is ever written in the turn.
C15_SummaryTurnHasNoToolWidgets ==
  LET keywords == {"summary", "summarize", "summarise", "brief", "briefly",
                   "overview", "recap", "highlights", "tldr", "tl;dr", "gist"}
      query == IF request # << >> /\ Last(request).role = "user"
               THEN Last(request).content ELSE EmptyText
  IN (\E i \in 1..Len(query) : query[i] \in keywords) =>
       \A k \in 1..Len(wire) :
         wire[k].type = "widget" => wire[k].widget.src = "llm"

\* C16: whatever shape the LLM output has, the turn is never ended by an
\* error event on its account: once the LLM was invoked, an error event is
\* on the wire only if the LLM stream itself reported an error.
C16_OutputShapeNeverFailsTurn ==
  (llmCalls > 0 /\ ~llmFailed) => ErrorEvents = {}

\* C17: when an iteration after a tool round parses to no tool calls and an
\* empty response text, the text that is streamed is the fallback apology.
C17_EmptyAfterToolsGetsApology ==
  LET parsed == parseResponse(fullResponse)
      apology == "I've completed the search but couldn't find any matching results."
  IN (pc = "stream" /\ iteration > 0 /\ ~HasToolCalls(parsed)
      /\ parsed.response = EmptyText) =>
       /\ responseText # EmptyText
       /\ Head(responseText) = apology

\* C18: when the final JSON of the turn carries `response` as an object, the
\* response text of the turn is the string under summary, else text, else
\* message, and the turn streams it without an error.
C18_ObjectResponseUnwrapped ==
  LET obj == fullResponse.responseObject
      picked == IF obj.summary # NoKey THEN obj.summary
                ELSE IF obj.text # NoKey THEN obj.text ELSE obj.message
  IN (pc = "returned" /\ fullResponse.kind = "json" /\ obj.present
      /\ ~HasToolCalls(parseResponse(fullResponse))) =>
       /\ responseText = picked
       /\ ErrorEvents = {}

----------------------------------------------------------------------------
(* Two /chat requests processed concurrently against the singleton         *)
(* providers.  Session lending is the orchestrator's step "install the     *)
(* request's handle on the API-backed providers at request start"; the     *)
(* providers have setSession as their only operation on the session.       *)

turnVars == <<streamHelper, pc, config, request, conversation, loopVars, histVars>>

InitSession ==
  /\ streamHelper = NewStreamHelper
  /\ pc = "session"
  /\ config = 0
  /\ request = <<UserTurn>>
  /\ conversation = << >>
  /\ messages = << >>
  /\ iteration = 0
  /\ fullResponse = EmptyRaw
  /\ toolCalls = << >>
  /\ running = {}
  /\ results = << >>
  /\ words = << >>
  /\ responseText = EmptyText
  /\ llmWidgets = << >>
  /\ llmCalls = 0
  /\ toolExecs = 0
  /\ settled = << >>
  /\ firstParse = "none"
  /\ llmFailed = FALSE
  /\ emitCalls = [total |-> 0, late |-> 0]
  /\ probed = "none"
  /\ contextQuery = "none"
  /\ mail = NewMailProvider
  /\ calendar = NewCalendarProvider
  /\ \E hs \in HandleChoices : tasks = [r \in Tasks |-> ReadyTask(hs[r])]
  /\ apiLog = << >>
  /\ lastInstalled = NoSession
  /\ titan = NewTitan
  /\ NoToolWork

\* request start: lend the request's session handle to both providers
ProcessStart(r) ==
  /\ pc = "session"
  /\ tasks[r].pc = "ready"
  /\ tasks' = [tasks EXCEPT ![r].pc = "run"]
  /\ IF tasks[r].handle # NoSession
     THEN /\ mail' = setSession(mail, tasks[r].handle)
          /\ calendar' = calendarSetSession(calendar, tasks[r].handle)
          /\ lastInstalled' = tasks[r].handle
     ELSE UNCHANGED <<mail, calendar, lastInstalled>>
  /\ UNCHANGED <<turnVars, toolVars, apiLog, titan>>

ApiCall(r, api, endpoint, p) ==
  [by |-> r, api |-> api, endpoint |-> endpoint, sent |-> providerRequest(p),
   installed |-> lastInstalled]

\* TitanMailProvider.fetchFolders: the cached list, or GET /folders
FoldersCached(p) == p.foldersLoaded /\ p.folders # << >>

\* the tool calls the requests in flight have started between them
CallsStarted == tasks[1].calls + tasks[2].calls

RemoveAt(s, i) == SubSeq(s, 1, i - 1) \o SubSeq(s, i + 1, Len(s))

\* a mail tool handler of request r (message-tools.ts:289-330) up to its
\* first await: hasSession, then fetchMessages, whose folder lookup returns
\* the cached list (GET /messages follows at once) or sends GET /folders and
\* waits for the response
MailToolCall(r) ==
  /\ pc = "session"
  /\ tasks[r].pc = "run"
  /\ CallsStarted < MaxToolCalls
  /\ IF ~hasSession(mail)
     THEN /\ tasks' = [tasks EXCEPT ![r].calls = @ + 1]
          /\ UNCHANGED apiLog
     ELSE IF FoldersCached(mail)
     THEN /\ tasks' = [tasks EXCEPT ![r].calls = @ + 1]
          /\ apiLog' = Append(apiLog, ApiCall(r, "mail", "/messages", mail))
     ELSE /\ tasks' = [tasks EXCEPT
                         ![r].calls = @ + 1,
                         ![r].pending = Append(@, [op |-> "folders",
                                                   fetched |-> mail.session.session,
                                                   sentAt |-> 0])]
          /\ apiLog' = Append(apiLog, ApiCall(r, "mail", "/folders", mail))
  /\ UNCHANGED <<turnVars, toolVars, mail, calendar, lastInstalled, titan>>

\* fetchFolders after its await (types.ts:292-304): the response of the
\* request sent earlier is stored as the folder list, whatever session the
\* provider holds by now, and fetchMessages goes on to GET /messages; a
\* failed request stores nothing and the folder is not found
FoldersResponse(r, i) ==
  /\ pc = "session"
  /\ i \in DOMAIN tasks[r].pending
  /\ tasks[r].pending[i].op = "folders"
  /\ tasks' = [tasks EXCEPT ![r].pending = RemoveAt(@, i)]
  /\ \E ok \in BOOLEAN :
       IF ok
       THEN /\ mail' = [mail EXCEPT !.folders = <<tasks[r].pending[i].fetched>>,
                                    !.foldersLoaded = TRUE]
            /\ apiLog' = Append(apiLog, ApiCall(r, "mail", "/messages", mail))
       ELSE UNCHANGED <<mail, apiLog>>
  /\ UNCHANGED <<turnVars, toolVars, calendar, lastInstalled, titan>>

\* the fetch_calendar_list handler of request r (titan-calendar-tools.ts:
\* 221-268) up to its first await: hasSession, then fetchCalendarList, which
\* returns the cached list or sends one request and waits for the response;
\* a call answered from the cache sends nothing and is not counted
CalendarToolCall(r) ==
  /\ pc = "session"
  /\ tasks[r].pc = "run"
  /\ CallsStarted < MaxToolCalls
       \/ (hasSession(calendar) /\ calendar.calendarsCache # NoCache)
  /\ IF ~hasSession(calendar)
     THEN /\ tasks' = [tasks EXCEPT ![r].calls = @ + 1]
          /\ UNCHANGED <<apiLog, titan>>
     ELSE IF calendar.calendarsCache # NoCache
     THEN /\ titan' = [titan EXCEPT !.listed = calendar.calendarsCache.version]
          /\ UNCHANGED <<tasks, apiLog>>
     ELSE /\ tasks' = [tasks EXCEPT
                         ![r].calls = @ + 1,
                         ![r].pending = Append(@, [op |-> "calendarList",
                                                   fetched |-> calendar.session.session,
                                                   sentAt |-> titan.calendarVersion])]
          /\ apiLog' = Append(apiLog, ApiCall(r, "calendar",
                                              "/kairos/user/calendarList", calendar))
          /\ UNCHANGED titan
  /\ UNCHANGED <<turnVars, toolVars, mail, calendar, lastInstalled>>

\* fetchCalendarList after its await (titan-calendar-provider.ts:382-385):
\* the response is cached and returned; the server built it at some moment
\* between the sending of the request and now. The call counts as one made
\* after the latest update only if it was sent after it.
CalendarListResponse(r, i) ==
  /\ pc = "session"
  /\ i \in DOMAIN tasks[r].pending
  /\ tasks[r].pending[i].op = "calendarList"
  /\ tasks' = [tasks EXCEPT ![r].pending = RemoveAt(@, i)]
  /\ \E v \in tasks[r].pending[i].sentAt..titan.calendarVersion :
       /\ calendar' = [calendar EXCEPT
                         !.calendarsCache = [owner |-> tasks[r].pending[i].fetched,
                                             version |-> v]]
       /\ titan' = IF tasks[r].pending[i].sentAt = titan.calendarVersion
                   THEN [titan EXCEPT !.listed = v]
                   ELSE titan
  /\ UNCHANGED <<turnVars, toolVars, mail, apiLog, lastInstalled>>

\* the update_calendar handler of request r (titan-calendar-tools.ts:
\* 393-438) up to its await: hasSession, the check that some field is to be
\* updated, then provider.updateCalendar sends the PATCH
UpdateCalendarCall(r) ==
  /\ pc = "session"
  /\ tasks[r].pc = "run"
  /\ CallsStarted < MaxToolCalls
  /\ \E hasUpdates \in BOOLEAN :
       IF ~hasSession(calendar) \/ ~hasUpdates
       THEN /\ tasks' = [tasks EXCEPT ![r].calls = @ + 1]
            /\ UNCHANGED apiLog
       ELSE /\ tasks' = [tasks EXCEPT
                           ![r].calls = @ + 1,
                           ![r].pending = Append(@, [op |-> "update",
                                                     fetched |-> calendar.session.session,
                                                     sentAt |-> titan.calendarVersion])]
            /\ apiLog' = Append(apiLog, ApiCall(r, "calendar",
                                                "/kairos/user/calendarList/id", calendar))
  /\ UNCHANGED <<turnVars, toolVars, mail, calendar, lastInstalled, titan>>

\* the update_calendar handler after its await: on success the server holds
\* a new list and the handler clears the provider's cache; a failed PATCH
\* is caught and clears nothing
UpdateCalendarResponse(r, i) ==
  /\ pc = "session"
  /\ i \in DOMAIN tasks[r].pending
  /\ tasks[r].pending[i].op = "update"
  /\ tasks' = [tasks EXCEPT ![r].pending = RemoveAt(@, i)]
  /\ \E ok \in BOOLEAN :
       IF ok
       THEN /\ titan' = [calendarVersion |-> titan.calendarVersion + 1,
                         listed |-> NotListed]
            /\ calendar' = clearCache(calendar)
       ELSE UNCHANGED <<titan, calendar>>
  /\ UNCHANGED <<turnVars, toolVars, mail, apiLog, lastInstalled>>

\* processRequest returns, on whichever exit path, once its tool calls have
\* settled: the providers keep what setSession left in them
ProcessReturn(r) ==
  /\ pc = "session"
  /\ tasks[r].pc = "run"
  /\ tasks[r].pending = << >>
  /\ tasks' = [tasks EXCEPT ![r].pc = "returned"]
  /\ UNCHANGED <<turnVars, toolVars, mail, calendar, apiLog, lastInstalled, titan>>

NextSession ==
  \/ \E r \in Tasks : ProcessStart(r)
  \/ \E r \in Tasks : MailToolCall(r)
  \/ \E r \in Tasks, i \in 1..MaxToolCalls : FoldersResponse(r, i)
  \/ \E r \in Tasks : CalendarToolCall(r)
  \/ \E r \in Tasks, i \in 1..MaxToolCalls : CalendarListResponse(r, i)
  \/ \E r \in Tasks : UpdateCalendarCall(r)
  \/ \E r \in Tasks, i \in 1..MaxToolCalls : UpdateCalendarResponse(r, i)
  \/ \E r \in Tasks : ProcessReturn(r)

SessionSpec == InitSession /\ [][NextSession]_vars

\* C19: once the processing of a request that carried a session handle has
\* returned, neither provider holds that session, and no downstream request
\* of a request without a handle is sent under a session token.
C19_SessionReleasedOnReturn ==
  /\ \A r \in Tasks :
       (tasks[r].pc = "returned" /\ tasks[r].handle # NoSession) =>
         /\ mail.session # tasks[r].handle
         /\ calendar.session # tasks[r].handle
  /\ \A k \in 1..Len(apiLog) : tasks[apiLog[k].by].handle # NoSession

\* C20: a downstream request carries the token of the session installed
\* last on the singleton, whichever request's tool call sends it; so with two
\* requests in flight under different sessions a call of the first is sent
\* with the token and base URL of the second.
C20_CallsUseLastInstalledSession ==
  \A k \in 1..Len(apiLog) :
    /\ apiLog[k].installed # NoSession
    /\ apiLog[k].sent.token = apiLog[k].installed.session

C20_Witness ==
  /\ tasks[1].pc = "run"
  /\ tasks[2].pc = "run"
  /\ tasks[1].handle = SessionInfo("tokA", "urlA")
  /\ tasks[2].handle = SessionInfo("tokB", "urlB")
  /\ \E k \in 1..Len(apiLog) :
       /\ apiLog[k].by = 1
       /\ apiLog[k].api = "mail"
       /\ apiLog[k].sent = [token |-> "tokB", baseUrl |-> "urlB"]

\* C21: when a provider query of buildContext fails, the turn does not end
\* there: it returns only after the LLM was invoked, and no error event is
\* on the wire before the LLM was invoked.
C21_ContextFailureTolerated ==
  contextQuery = "failed" =>
    /\ pc = "returned" => llmCalls > 0
    /\ llmCalls = 0 => ErrorEvents = {}

----------------------------------------------------------------------------
(* The start of a turn on a conversation that already has entries:         *)
(* agent.ts:72-104 up to the first entry of the tool loop.                 *)

MaxPrior == 11

\* n earlier entries of the conversation, roles alternating
PriorConversation(n, userFirst) ==
  [k \in 1..n |->
     [role |-> IF (k % 2 = 1) = userFirst THEN "user" ELSE "assistant",
      content |-> <<"m" \o ToString(k)>>]]

PriorConversations ==
  { PriorConversation(n, f) : n \in 0..MaxPrior, f \in BOOLEAN }

InitHistory ==
  /\ streamHelper = NewStreamHelper
  /\ pc = "start"
  /\ config = 0
  /\ request \in Requests
  /\ conversation \in PriorConversations
  /\ messages = << >>
  /\ iteration = 0
  /\ fullResponse = EmptyRaw
  /\ toolCalls = << >>
  /\ running = {}
  /\ results = << >>
  /\ words = << >>
  /\ responseText = EmptyText
  /\ llmWidgets = << >>
  /\ llmCalls = 0
  /\ toolExecs = 0
  /\ settled = << >>
  /\ firstParse = "none"
  /\ llmFailed = FALSE
  /\ emitCalls = [total |-> 0, late |-> 0]
  /\ probed = "none"
  /\ contextQuery = "none"
  /\ NoSessionTraffic
  /\ NoToolWork

NextHistory ==
  \/ Begin
  \/ Probe
  \/ BuildContext

HistorySpec == InitHistory /\ [][NextHistory]_vars

StatusEvents == {k \in 1..Len(wire) : wire[k].type = "status"}

\* C23: there is one status event per LLM invocation, written before it:
\* "Thinking..." for the first, "Processing tool results..." for each later
\* one; a status event is written only when nothing of the earlier iteration
\* is still to be emitted, and text and terminal events never precede a
\* status event.
C23_StatusPerIteration ==
  /\ [](/\ Cardinality(StatusEvents) = llmCalls + (IF pc = "llm" THEN 1 ELSE 0)
        /\ \A k \in StatusEvents :
             wire[k].arg = IF \A j \in StatusEvents : k <= j THEN "Thinking..."
                           ELSE "Processing tool results..."
        /\ \A k \in 1..Len(wire) :
             wire[k].type \in {"text_delta", "done", "error"} => k > LastStatus)
  /\ [][Len(streamHelper'.res.wire) > Len(wire)
        /\ Last(streamHelper'.res.wire).type = "status" =>
          /\ pc = "loop"
          /\ pc' = "llm"
          /\ running = {}
          /\ words = << >>
          /\ Cardinality(StatusEvents) = iteration]_vars

C23_Witness ==
  /\ pc = "returned"
  /\ llmCalls = 3
  /\ Cardinality(StatusEvents) = 3
  /\ \E k \in 1..Len(wire) : wire[k].type = "widget" /\ k < LastStatus
  /\ Last(wire) = DoneEvent

\* the contents of the text_delta events of a wire, concatenated in order
RECURSIVE DeltaConcat(_)
DeltaConcat(events) ==
  IF events = << >> THEN EmptyText
  ELSE (IF events[1].type = "text_delta" THEN events[1].text ELSE EmptyText)
       \o DeltaConcat(Tail(events))

RECURSIVE ConcatAll(_)
ConcatAll(parts) ==
  IF parts = << >> THEN EmptyText ELSE parts[1] \o ConcatAll(Tail(parts))

\* C24: on the no-tool-calls path the text_delta contents written so far,
\* followed by the words still to be sent, are the response text; once the
\* turn has returned the text_delta contents alone are the response text,
\* whitespace included.
C24_DeltasReproduceText ==
  /\ pc = "stream" => DeltaConcat(wire) \o ConcatAll(words) = responseText
  /\ (pc = "returned" /\ responseText # EmptyText) => DeltaConcat(wire) = responseText

C24_Witness ==
  /\ pc = "returned"
  /\ responseText = <<" ", "a", " ", " ", "b">>
  /\ DeltaConcat(wire) = responseText
  /\ Last(wire) = DoneEvent

----------------------------------------------------------------------------
(* Intent routing on its own: PromptRouter.detectDomains,                  *)
(* detectCapabilities and getRelevantTools, and the registry's             *)
(* getDefinitionsByDomain, applied to drawn queries, tool lists and domain *)
(* lists.  The registry holds the tools registered at start-up.            *)

MaxTools == 3

MaxQueryLen == 2

QueryAlphabet == {"t", "o", "T", "u", "I"}

NamedQueries ==
  { <<"n", "o", "t", " ", "f", "e", "e", "l", "i", "n", "g", " ", "w", "e", "l", "l", " ", "t", "o", "d", "a", "y">>,
    <<"h", "i", " ", "B", "o", "b">>,
    <<"A", "n", "y", " ", "U", "N", "R", "E", "A", "D", " ", "M", "a", "i", "l">>,
    <<"B", "o", "o", "k", " ", "a", " ", "M", "e", "e", "t", "i", "n", "g">>,
    <<"m", "a", "k", "e", " ", "a", " ", "S", "u", "r", "v", "e", "y">> }

Queries ==
  NamedQueries \cup UNION { [1..n -> QueryAlphabet] : n \in 0..MaxQueryLen }

\* letters of the other case
swapCase(s) ==
  [i \in 1..Len(s) |->
     IF IsUpper(s[i]) THEN toLowerCase(<<s[i]>>)[1]
     ELSE IF IsLower(s[i]) THEN toUpperCase(<<s[i]>>)[1]
     ELSE s[i]]

\* the queries that differ from q in letter case only
CaseVariants(q) == {toUpperCase(q), toLowerCase(q), swapCase(q)} \ {q}

ToolName(i) == "tool" \o ToString(i)

\* tool lists: the i-th tool is a ToolModel of some domain or a plain ToolDefinition
ToolLists ==
  UNION { { [i \in 1..n |-> [name |-> ToolName(i), domain |-> ds[i]]] :
            ds \in [1..n -> ToolDomains \cup {NoVal}] } : n \in 0..MaxTools }

DomainLists ==
  { << >>, <<"email">>, <<"calendar">>, <<"general">>,
    <<"email", "calendar">>, <<"calendar", "email">>,
    <<"email", "general">>, <<"email", "email">>,
    <<"email", "calendar", "general">> }

RECURSIVE registerTools(_, _)
\* the start-up registration (registerMessageTools and its like): one
\* registry.register per tool, in order
registerTools(tools, defs) ==
  IF defs = << >> THEN tools
  ELSE registerTools(register(tools, Head(defs), "handler"), Tail(defs))

\* ToolRegistry.getAllDefinitions
getAllDefinitions(tools) == [i \in DOMAIN tools |-> tools[i].definition]

InitRouter ==
  /\ streamHelper = NewStreamHelper
  /\ pc = "router"
  /\ config = 0
  /\ request = <<UserTurn>>
  /\ conversation = << >>
  /\ messages = << >>
  /\ iteration = 0
  /\ fullResponse = EmptyRaw
  /\ toolCalls = << >>
  /\ running = {}
  /\ results = << >>
  /\ words = << >>
  /\ responseText = EmptyText
  /\ llmWidgets = << >>
  /\ llmCalls = 0
  /\ toolExecs = 0
  /\ settled = << >>
  /\ firstParse = "none"
  /\ llmFailed = FALSE
  /\ emitCalls = [total |-> 0, late |-> 0]
  /\ probed = "none"
  /\ contextQuery = "none"
  /\ NoSessionTraffic
  /\ router = IdleRouter
  /\ registry \in { registerTools(NewRegistry, ts) : ts \in ToolLists }
  /\ regCall = NoRegistryCall
  /\ exec = IdleExec
  /\ llm = IdleLlm

\* promptRouter.detectDomains(query) and detectCapabilities(query)
DetectIntent ==
  /\ pc = "router"
  /\ router.phase = "idle"
  /\ \E q \in Queries :
       router' = [phase |-> "detected", query |-> q,
                  domains |-> detectDomains(q),
                  capabilities |-> detectCapabilities(q)]
  /\ UNCHANGED <<turnVars, sessVars, registry, regCall, exec, llm>>

\* the same two calls on a query that differs in letter case only
DetectVariant ==
  /\ pc = "router"
  /\ router.phase = "detected"
  /\ \E v \in CaseVariants(router.query) :
       router' = [phase |-> "compared", query |-> router.query,
                  domains |-> router.domains,
                  capabilities |-> router.capabilities,
                  variant |-> v,
                  variantDomains |-> detectDomains(v),
                  variantCapabilities |-> detectCapabilities(v)]
  /\ UNCHANGED <<turnVars, sessVars, registry, regCall, exec, llm>>

\* promptRouter.getRelevantTools(registry.getAllDefinitions(), domains) and
\* registry.getDefinitionsByDomain(domains)
SelectTools ==
  /\ pc = "router"
  /\ router.phase = "idle"
  /\ \E domains \in DomainLists :
       router' = [phase |-> "selected",
                  allTools |-> getAllDefinitions(registry),
                  asked |-> domains,
                  relevant |-> getRelevantTools(getAllDefinitions(registry), domains),
                  byDomain |-> getDefinitionsByDomain(registry, domains)]
  /\ UNCHANGED <<turnVars, sessVars, registry, regCall, exec, llm>>

NextRouter == DetectIntent \/ DetectVariant \/ SelectTools

RouterSpec == InitRouter /\ [][NextRouter]_vars

\* the tools of a list whose domain tag is in the asked set, and the untagged ones
Wanted(allTools, asked) ==
  { allTools[i] : i \in { j \in DOMAIN allTools :
        \/ allTools[j].domain = NoVal
        \/ \E k \in DOMAIN asked : asked[k] = allTools[j].domain } }

\* C25: for every tool list and every detected-domain set, getRelevantTools
\* and getDefinitionsByDomain both return exactly the tools whose domain tag
\* is in the set together with the tools that have no domain tag, each once.
C25_RelevantToolsExact ==
  router.phase = "selected" =>
    LET want == Wanted(router.allTools, router.asked)
    IN  /\ { router.relevant[i] : i \in DOMAIN router.relevant } = want
        /\ Len(router.relevant) = Cardinality(want)
        /\ { router.byDomain[i] : i \in DOMAIN router.byDomain } = want
        /\ Len(router.byDomain) = Cardinality(want)

\* a list holding an untagged tool, a tool of an asked domain and a tool of
\* another domain: the first two come back, the third does not
C25_Witness ==
  /\ router.phase = "selected"
  /\ router.asked = <<"email">>
  /\ router.allTools = << ToolDefinition(ToolName(1)),
                          ToolModel(ToolName(2), "email"),
                          ToolModel(ToolName(3), "calendar") >>
  /\ router.relevant = << ToolDefinition(ToolName(1)), ToolModel(ToolName(2), "email") >>
  /\ router.byDomain = router.relevant

\* the keyword-bearing domains one of whose keywords occurs in the lowercased query
MatchingDomains(query) ==
  { domainPrompts[i].domain :
      i \in { j \in DOMAIN domainPrompts :
                \E k \in DOMAIN domainPrompts[j].keywords :
                  includes(toLowerCase(query), domainPrompts[j].keywords[k]) } }

\* C26: detectDomains returns exactly <<"general">> if and only if the
\* lowercased query contains no keyword of a keyword-bearing domain as a
\* substring; otherwise it returns the non-empty list of the matching
\* domains, which never contains "general".
C26_GeneralIffNoKeyword ==
  router.phase \in {"detected", "compared"} =>
    LET matching == MatchingDomains(router.query)
        returned == { router.domains[i] : i \in DOMAIN router.domains }
    IN  /\ (router.domains = <<"general">>) <=> (matching = {})
        /\ matching # {} =>
             /\ router.domains # << >>
             /\ returned = matching
             /\ Len(router.domains) = Cardinality(matching)
             /\ "general" \notin returned

\* a query in capitals that holds an email keyword and no calendar keyword
C26_Witness ==
  /\ router.phase = "detected"
  /\ router.query = <<"A", "n", "y", " ", "U", "N", "R", "E", "A", "D", " ", "M", "a", "i", "l">>
  /\ router.domains = <<"email">>

NotFeelingWell ==
  <<"n", "o", "t", " ", "f", "e", "e", "l", "i", "n", "g", " ",
    "w", "e", "l", "l", " ", "t", "o", "d", "a", "y">>

\* C27: for the query "not feeling well today" intent detection yields only
\* the general domain, so that of a tool list only the untagged and the
\* general-domain tools are relevant: neither email nor calendar is detected.
C27_EmpathyQueryIsGeneral ==
  (router.phase = "detected" /\ router.query = NotFeelingWell) =>
    /\ router.domains = <<"general">>
    /\ \A i \in DOMAIN router.domains : router.domains[i] \notin {"email", "calendar"}

\* C28: intent detection is a case-insensitive function of the query text:
\* two queries that differ only in letter case yield the same domain list
\* and the same capability list, whatever was detected before.
C28_CaseInsensitive ==
  (router.phase = "compared" /\ toLowerCase(router.variant) = toLowerCase(router.query)) =>
    /\ router.variantDomains = router.domains
    /\ router.variantCapabilities = router.capabilities

\* a mixed-case query and its capitals detect the same domains and both
\* detect the widget capability
C28_Witness ==
  /\ router.phase = "compared"
  /\ router.query = <<"m", "a", "k", "e", " ", "a", " ", "S", "u", "r", "v", "e", "y">>
  /\ router.variant = toUpperCase(router.query)
  /\ router.variant # router.query
  /\ router.variantCapabilities = <<"widgets">>
  /\ router.variantDomains = router.domains

----------------------------------------------------------------------------
(* The registry on its own: a register call and the unregister call for    *)
(* the same name, from a registry that holds the start-up tools.           *)

RegistryNames == { ToolName(i) : i \in 1..(MaxTools + 1) }

InitRegistry ==
  /\ streamHelper = NewStreamHelper
  /\ pc = "registry"
  /\ config = 0
  /\ request = <<UserTurn>>
  /\ conversation = << >>
  /\ messages = << >>
  /\ iteration = 0
  /\ fullResponse = EmptyRaw
  /\ toolCalls = << >>
  /\ running = {}
  /\ results = << >>
  /\ words = << >>
  /\ responseText = EmptyText
  /\ llmWidgets = << >>
  /\ llmCalls = 0
  /\ toolExecs = 0
  /\ settled = << >>
  /\ firstParse = "none"
  /\ llmFailed = FALSE
  /\ emitCalls = [total |-> 0, late |-> 0]
  /\ probed = "none"
  /\ contextQuery = "none"
  /\ NoSessionTraffic
  /\ router = IdleRouter
  /\ registry \in { registerTools(NewRegistry, ts) : ts \in ToolLists }
  /\ regCall = NoRegistryCall
  /\ exec = IdleExec
  /\ llm = IdleLlm

\* registry.register(definition, handler)
Register ==
  /\ pc = "registry"
  /\ regCall.phase = "idle"
  /\ \E name \in RegistryNames, domain \in ToolDomains \cup {NoVal},
        handler \in {"handler", "otherHandler"} :
       /\ registry' = register(registry, [name |-> name, domain |-> domain], handler)
       /\ regCall' = [phase |-> "registered", name |-> name, before |-> registry]
  /\ UNCHANGED <<turnVars, sessVars, router, exec, llm>>

\* registry.unregister(name) for the name just registered
Unregister ==
  /\ pc = "registry"
  /\ regCall.phase = "registered"
  /\ registry' = unregister(registry, regCall.name)
  /\ regCall' = [regCall EXCEPT !.phase = "unregistered"]
  /\ UNCHANGED <<turnVars, sessVars, router, exec, llm>>

NextRegistry == Register \/ Unregister

RegistrySpec == InitRegistry /\ [][NextRegistry]_vars

\* C29 as stated: for any registry state and any tool name, also one that
\* is already registered, Register and then Unregister for that name leave
\* the registry with exactly the entries it had before the two calls.
C29_RoundTripAnyName ==
  regCall.phase = "unregistered" => registry = regCall.before

\* C29 as amended: for a name that was not registered, Register and then
\* Unregister leave the registry with exactly the entries it had; for a
\* name that was registered, the two calls remove that name's entry and
\* leave every other entry as it was.
C29_RoundTripNewName ==
  regCall.phase = "unregistered" =>
    LET Other(t) == t.name # regCall.name
    IN  IF RegistryHas(regCall.before, regCall.name)
        THEN registry = SelectSeq(regCall.before, Other)
        ELSE registry = regCall.before

\* a new name registered into a registry of two tools and removed again
C29_Witness ==
  /\ regCall.phase = "unregistered"
  /\ Len(regCall.before) = 2
  /\ ~RegistryHas(regCall.before, regCall.name)
  /\ registry = regCall.before

\* C30: every ToolResult that execute or executeMany returns with
\* success=false has error set and no data, whether the tool was unknown,
\* its handler threw, or its handler returned the failure itself.
C30_FailureHasErrorAndNoData ==
  \A i \in DOMAIN results :
    ~results[i].result.success =>
      /\ results[i].result.error # NoVal
      /\ results[i].result.data = NoVal

\* one batch that took all three paths: a handler that returned a failure,
\* an unknown tool and a handler that threw
C30_Witness ==
  /\ pc = "tools"
  /\ running = {}
  /\ \E i \in DOMAIN results : results[i].result = UnknownToolResult
  /\ \E i \in DOMAIN results : results[i].result = ThrownResult
  /\ \E i \in DOMAIN results :
       /\ results[i].result = HandlerResult("get_email_details", "fails")
       /\ ~results[i].result.success

----------------------------------------------------------------------------
(* ToolExecutor.executeSequential on its own, with calls that carry their  *)
(* arguments: the loop takes the calls in list order and awaits execute    *)
(* for each; a handler is started by execute and settles in a later step.  *)

MaxExecCalls == 3

\* the ids the email provider holds
MockEmailIds == {"e1"}

\* a tool call with arguments; a parameter the call omits reads as NoVal
ArgCall(id, name, emailId) ==
  [id |-> id, name |-> name, arguments |-> [emailId |-> emailId]]

\* createGetEmailDetailsHandler (email-tools.ts:153-178)
getEmailDetails(arguments) ==
  LET emailId == arguments.emailId
  IN  IF emailId \in MockEmailIds
      THEN [success |-> TRUE, data |-> emailId, error |-> << >>,
            widgets |-> <<createEmailWidget(emailId, "get_email_details")>>]
      ELSE [success |-> FALSE, data |-> NoVal,
            error |-> <<"Email not found:",
                        IF emailId = NoVal THEN "undefined" ELSE emailId>>,
            widgets |-> << >>]

\* ToolExecutor.execute on a call with arguments: the handler gets
\* toolCall.arguments as they are
executeCall(call) ==
  IF RegistryGet(call.name) /\ call.name = "get_email_details"
  THEN getEmailDetails(call.arguments)
  ELSE LET e == execute(call, CHOOSE o \in OutcomesOf(call) : TRUE).result
       IN  [e EXCEPT !.error = IF e.error = NoVal THEN << >> ELSE <<e.error>>]

ExecShapes ==
  { <<"search_emails", NoVal>>, <<"get_email_details", "e1">>,
    <<"get_email_details", NoVal>>, <<"get_email_details", "e9">>,
    <<"no_such_tool", NoVal>>, <<"custom_tool", NoVal>> }

\* the lists handed to executeSequential: ids by position, or one id for all
ExecCallLists ==
  UNION { { [i \in 1..n |-> ArgCall(IF same THEN "c1" ELSE "c" \o ToString(i),
                                     sh[i][1], sh[i][2])] :
            sh \in [1..n -> ExecShapes], same \in BOOLEAN } : n \in 1..MaxExecCalls }

InitExec ==
  /\ streamHelper = NewStreamHelper
  /\ pc = "exec"
  /\ config = 0
  /\ request = <<UserTurn>>
  /\ conversation = << >>
  /\ messages = << >>
  /\ iteration = 0
  /\ fullResponse = EmptyRaw
  /\ toolCalls = << >>
  /\ running = {}
  /\ results = << >>
  /\ words = << >>
  /\ responseText = EmptyText
  /\ llmWidgets = << >>
  /\ llmCalls = 0
  /\ toolExecs = 0
  /\ settled = << >>
  /\ firstParse = "none"
  /\ llmFailed = FALSE
  /\ emitCalls = [total |-> 0, late |-> 0]
  /\ probed = "none"
  /\ contextQuery = "none"
  /\ NoSessionTraffic
  /\ router = IdleRouter
  /\ registry = NewRegistry
  /\ regCall = NoRegistryCall
  /\ llm = IdleLlm
  /\ \E calls \in ExecCallLists :
       exec = [phase |-> "loop", calls |-> calls, next |-> 1, awaiting |-> 0,
               running |-> {}, started |-> << >>, results |-> << >>]

MayStart_always(e) == TRUE

\* message-tools.ts:645: the loop body runs again only when the awaited
\* execute has settled
MayStart(e) == e.awaiting = 0

\* message-tools.ts:644-647: the loop takes the next call.  execute answers
\* an unknown tool itself; otherwise it starts the handler and the loop waits
SeqDispatch ==
  /\ pc = "exec"
  /\ exec.phase = "loop"
  /\ exec.next <= Len(exec.calls)
  /\ MayStart(exec)
  /\ LET k == exec.next
         call == exec.calls[k]
     IN  IF RegistryGet(call.name)
         THEN exec' = [exec EXCEPT !.awaiting = k, !.next = k + 1,
                                   !.running = @ \cup {k},
                                   !.started = Append(@, k)]
         ELSE exec' = [exec EXCEPT !.next = k + 1,
                                   !.results = MapSet(@, call.id, executeCall(call))]
  /\ UNCHANGED <<turnVars, sessVars, router, registry, regCall, llm>>

\* message-tools.ts:645-646: a handler settles; results.set(call.id, result)
SeqSettle ==
  /\ pc = "exec"
  /\ exec.phase = "loop"
  /\ \E k \in exec.running :
       exec' = [exec EXCEPT !.running = @ \ {k},
                            !.awaiting = IF @ = k THEN 0 ELSE @,
                            !.results = MapSet(@, exec.calls[k].id,
                                               executeCall(exec.calls[k]))]
  /\ UNCHANGED <<turnVars, sessVars, router, registry, regCall, llm>>

\* message-tools.ts:649: return results
SeqReturn ==
  /\ pc = "exec"
  /\ exec.phase = "loop"
  /\ exec.next > Len(exec.calls)
  /\ exec.running = {}
  /\ exec' = [exec EXCEPT !.phase = "returned"]
  /\ UNCHANGED <<turnVars, sessVars, router, registry, regCall, llm>>

NextExec == SeqDispatch \/ SeqSettle \/ SeqReturn

ExecSpec == InitExec /\ [][NextExec]_vars

\* C31: when a dispatched call omits a parameter of the tool's required set
\* (get_email_details without emailId), the call's ToolResult is a failure
\* whose error names the missing parameter.
C31_MissingRequiredReported ==
  (exec.phase = "returned" /\ DistinctIds(exec.calls)) =>
    \A k \in DOMAIN exec.calls :
      (exec.calls[k].name = "get_email_details"
         /\ exec.calls[k].arguments.emailId = NoVal) =>
        LET result == MapGet(exec.results, exec.calls[k].id)
        IN  /\ ~result.success
            /\ \E t \in DOMAIN result.error : result.error[t] = "emailId"

\* C34: executeSequential runs the handlers one at a time in list order: a
\* handler is started only when every handler started before it has
\* settled, the handlers start in list order, and the returned map holds
\* each distinct call id's own result, also after an earlier call failed.
C34_SequentialOneAtATime ==
  /\ exec.phase \in {"loop", "returned"} =>
       /\ Cardinality(exec.running) <= 1
       /\ \A a, b \in DOMAIN exec.started :
            a < b => exec.started[a] < exec.started[b]
       /\ \A k \in exec.running : exec.started[Len(exec.started)] = k
  /\ (exec.phase = "returned" /\ DistinctIds(exec.calls)) =>
       /\ Len(exec.results) = Len(exec.calls)
       /\ \A k \in DOMAIN exec.calls :
            /\ MapHas(exec.results, exec.calls[k].id)
            /\ MapGet(exec.results, exec.calls[k].id) = executeCall(exec.calls[k])

\* three calls: the first fails in its handler, the second is unknown, the
\* third succeeds and its result is in the returned map
C34_Witness ==
  /\ exec.phase = "returned"
  /\ Len(exec.calls) = 3
  /\ DistinctIds(exec.calls)
  /\ exec.started = <<1, 3>>
  /\ ~MapGet(exec.results, exec.calls[1].id).success
  /\ MapGet(exec.results, exec.calls[2].id).error = <<"Unknown tool">>
  /\ MapGet(exec.results, exec.calls[3].id).success

\* C32: no two widget blocks emitted by the process carry the same id,
\* whether they come from a tool result or from an LLM widget descriptor,
\* in the same or in different iterations.
C32_WidgetIdsUnique ==
  \A a, b \in 1..Len(wire) :
    (a # b /\ wire[a].type = "widget" /\ wire[b].type = "widget") =>
      wire[a].widget.id # wire[b].widget.id

\* C33: for every LLM widget descriptor of type "custom" with a vdom, also
\* one without a data field, parseFromLLMResponse returns a custom widget
\* block and does not throw: when the turn finishes on an open sink, the
\* custom widget is emitted and the step ends with done, not with an error.
C33_CustomVdomWithoutData ==
  [][(/\ pc = "stream" /\ pc' = "returned"
      /\ streamHelper.res.alive /\ ~streamHelper.closed
      /\ \E i \in DOMAIN llmWidgets :
           llmWidgets[i].type = "custom" /\ llmWidgets[i].hasVdom)
     => /\ \E k \in (Len(wire) + 1)..Len(wire') :
             wire'[k].type = "widget" /\ wire'[k].widget.type = "custom"
        /\ wire'[Len(wire')] = DoneEvent]_vars

----------------------------------------------------------------------------
(* One LLM call of a turn, step by step: OllamaProvider.streamChat reads   *)
(* the model's response lines while its abort timer runs, and the          *)
(* `for await` of processWithToolLoop handles each chunk as it is yielded. *)
(* Time is abstract: the timer may fire at any point before the call has   *)
(* finished, and it does fire if the call never finishes.                  *)

MaxLines == 2

ContentLine(raw) == [kind |-> "content", content |-> raw]

\* what one line of the response body can be
LineKinds ==
  { ContentLine(TextRaw(<<"a">>)), ContentLine(EmptyRaw),
    [kind |-> "done", content |-> EmptyRaw],
    [kind |-> "garbage", content |-> EmptyRaw] }

InitLlm ==
  /\ streamHelper = sendStatus(NewStreamHelper, StatusText(0))
  /\ pc = "llmcall"
  /\ config = 0
  /\ request = <<UserTurn>>
  /\ conversation = << >>
  /\ messages = << >>
  /\ iteration = 0
  /\ fullResponse = EmptyRaw
  /\ toolCalls = << >>
  /\ running = {}
  /\ results = << >>
  /\ words = << >>
  /\ responseText = EmptyText
  /\ llmWidgets = << >>
  /\ llmCalls = 0
  /\ toolExecs = 0
  /\ settled = << >>
  /\ firstParse = "none"
  /\ llmFailed = FALSE
  /\ emitCalls = [total |-> 0, late |-> 0]
  /\ probed = "none"
  /\ contextQuery = "none"
  /\ NoSessionTraffic
  /\ router = IdleRouter
  /\ registry = NewRegistry
  /\ regCall = NoRegistryCall
  /\ exec = IdleExec
  /\ \E n \in 0..MaxLines, ok \in BOOLEAN, ends \in BOOLEAN :
       \E lines \in [1..n -> LineKinds] :
         llm = [phase |-> "fetching", ok |-> ok, ends |-> ends, lines |-> lines,
                read |-> 0, timedOut |-> FALSE]

AbortChunk_done == DoneChunk

\* ollama-provider.ts:193-195: the chunk yielded for an AbortError
AbortChunk == ErrorChunk

\* agent.ts:151-158: the loop body on one yielded chunk; `ended` says the
\* generator has returned after it
Consume(chunk, ended) ==
  LET c == consumeFrom(streamHelper, fullResponse, <<chunk>>)
  IN  /\ streamHelper' = c.helper
      /\ fullResponse' = c.full
      /\ pc' = IF c.aborted THEN "returned"
               ELSE IF ended THEN "parsing" ELSE pc

llmFrame == <<config, request, conversation, messages, iteration, toolCalls,
              running, results, words, responseText, llmWidgets, histVars,
              sessVars, router, registry, regCall, exec>>

\* ollama-provider.ts:95-124: the fetch resolves
Respond ==
  /\ pc = "llmcall"
  /\ llm.phase = "fetching"
  /\ IF llm.ok
     THEN /\ llm' = [llm EXCEPT !.phase = "reading"]
          /\ UNCHANGED <<streamHelper, fullResponse, pc>>
     ELSE /\ llm' = [llm EXCEPT !.phase = "finished"]
          /\ Consume(ErrorChunk, TRUE)
  /\ UNCHANGED llmFrame

\* ollama-provider.ts:133-172: one line of the body is read and parsed
ReadLine ==
  /\ pc = "llmcall"
  /\ llm.phase = "reading"
  /\ llm.read < Len(llm.lines)
  /\ LET line == llm.lines[llm.read + 1]
     IN  CASE line.kind = "done" ->
                /\ llm' = [llm EXCEPT !.phase = "finished", !.read = @ + 1]
                /\ Consume(DoneChunk, TRUE)
           [] line.kind = "content" /\ line.content # EmptyRaw ->
                /\ llm' = [llm EXCEPT !.read = @ + 1]
                /\ Consume(ContentChunk(line.content), FALSE)
           [] OTHER ->
                /\ llm' = [llm EXCEPT !.read = @ + 1]
                /\ UNCHANGED <<streamHelper, fullResponse, pc>>
  /\ UNCHANGED llmFrame

\* ollama-provider.ts:136-139, 191: the body ends; the generator yields done
EndOfBody ==
  /\ pc = "llmcall"
  /\ llm.phase = "reading"
  /\ llm.read = Len(llm.lines)
  /\ llm.ends
  /\ llm' = [llm EXCEPT !.phase = "finished"]
  /\ Consume(DoneChunk, TRUE)
  /\ UNCHANGED llmFrame

\* ollama-provider.ts:88-89, 192-199: the timer fires before the call has
\* finished; the pending fetch or read rejects with an AbortError
Timeout ==
  /\ pc = "llmcall"
  /\ llm.phase \in {"fetching", "reading"}
  /\ llm' = [llm EXCEPT !.phase = "finished", !.timedOut = TRUE]
  /\ Consume(AbortChunk, TRUE)
  /\ UNCHANGED llmFrame

NextLlm == Respond \/ ReadLine \/ EndOfBody \/ Timeout

\* setTimeout guarantees the timer fires while the call is unfinished
LlmSpec == InitLlm /\ [][NextLlm]_vars /\ WF_vars(Timeout)

\* C35: if an LLM call has not finished when its timeout elapses, the
\* provider yields an error chunk, the orchestrator emits error LLM_ERROR
\* and the sink is closed; and the turn never waits on the LLM forever.
C35_TimeoutEndsTurn ==
  /\ [](llm.timedOut =>
          /\ pc = "returned"
          /\ wire[Len(wire)] = ErrorEvent("LLM_ERROR")
          /\ streamHelper.closed
          /\ streamHelper.res.ended = 1)
  /\ (pc = "llmcall" ~> pc # "llmcall")

\* the timer fired after a content chunk had been consumed, on a body that
\* never ends
C35_Witness ==
  /\ llm.timedOut
  /\ ~llm.ends
  /\ llm.read = Len(llm.lines)
  /\ fullResponse = TextRaw(<<"a">>)
  /\ pc = "returned"

----------------------------------------------------------------------------
(* Provider caches under interleaved requests (SessionSpec).               *)

\* C36: after setSession(s) on the mail provider the folder cache never
\* holds a folder list that was fetched under a session other than s, even
\* when a fetchFolders call started under the previous session completes
\* after the switch.
C36_FolderCacheOfCurrentSession ==
  FoldersCached(mail) => mail.folders = <<mail.session.session>>

\* C37: once an update_calendar call has completed successfully, every
\* later fetchCalendarList returns a list the server built after that
\* update, never one whose fetch began before it.
C37_ListAfterUpdateIsFresh ==
  titan.listed # NotListed => titan.listed = titan.calendarVersion

----------------------------------------------------------------------------
(* The conversation memory against the events of the turn (Spec).          *)

AssistantEntries == {k \in 1..Len(conversation) : conversation[k].role = "assistant"}

\* the texts of the text_delta events of the turn, joined in wire order
RECURSIVE ConcatDeltas(_)
ConcatDeltas(events) ==
  IF events = << >> THEN EmptyText
  ELSE (IF Head(events).type = "text_delta" THEN Head(events).text ELSE EmptyText)
       \o ConcatDeltas(Tail(events))

\* C38: a turn that ends with done has appended exactly one assistant entry
\* to the conversation, and its content is the concatenation of the turn's
\* text_delta events; a turn that ends with error has appended none.
C38_DoneTurnSavedOnce ==
  (pc = "returned" /\ wire # << >>) =>
    /\ Last(wire).type = "done" =>
         /\ Cardinality(AssistantEntries) = 1
         /\ \A k \in AssistantEntries : conversation[k].content = ConcatDeltas(wire)
    /\ Last(wire).type = "error" => AssistantEntries = {}

----------------------------------------------------------------------------
(* The message list handed to the next iteration (Spec).                   *)

\* C39: after a tool round the message list of iteration N+1 is the list of
\* iteration N, then one assistant message holding the raw output of
\* iteration N, then exactly one tool-result block per dispatched call, in
\* call order, each with the id, the name and the own result of its call.
C39_NextMessagesExtendByRound ==
  [][(pc = "tools" /\ pc' = "loop") =>
       /\ Len(messages') = Len(messages) + 1 + Len(toolCalls)
       /\ SubSeq(messages', 1, Len(messages)) = messages
       /\ messages'[Len(messages) + 1] = AssistantRawMessage(fullResponse)
       /\ \A k \in 1..Len(toolCalls) :
            \E i \in 1..Len(results) :
              /\ OwnResult(toolCalls[k], results[i].result)
              /\ messages'[Len(messages) + 1 + k]
                   = ToolMessage(toolCalls[k], results[i].result)]_vars

====
